---- MODULE Spec2Model ----
(***************************************************************************)
(* The Eero API client (src/src/api.ts): one EeroAPI object, its token,    *)
(* the HTTP requests its operations hand to fetch, and what each operation *)
(* gives back to its caller for every response the network can produce.    *)
(*                                                                         *)
(* The caller awaits each operation before it starts the next one on the   *)
(* same client (every call site in the views does), so one invocation is   *)
(* outstanding at a time:  idle -> awaiting -> done -> idle.               *)
(***************************************************************************)
EXTENDS Integers, Sequences, FiniteSets, TLC

VARIABLES
    token,      \* EeroAPI.token: Null or a string
    pc,         \* "idle" | "awaiting" (fetch outstanding) | "done" (the operation settled)
    call,       \* the invocation: operation, its arguments, the token when it began
    sent,       \* the requests this invocation has handed to fetch, in order
    resp,       \* what fetch gave back for the outstanding request
    outcome,    \* what the operation gave its caller: a value or a thrown error
    \* the helper functions of api.ts, applied to one input
    url,        \* the resource url given to an ID extractor
    device,     \* the device given to a display helper
    fn,         \* the helper that was applied last ("none" before the first)
    ret,        \* what it returned
    \* the config file of utils.ts
    file,       \* ~/.config/eero-cli/config.json: whether it exists, and its text
    lastSaved,  \* the config given to the most recent saveConfig that completed
    got,        \* what the most recent getConfig returned
    \* the views (commands of the extension)
    view,       \* the command on screen, "root" when none is
    shown,      \* what the view displays: its collection, the profile detail, the status
    tasks,      \* the handler invocations in flight, by slot
    event,      \* what the last step of a handler did: requests issued, toast shown
    session,    \* "fresh", "loggedOut" since a logout completed, "loggedIn" since a login did
    \* the profile detail view and the devices of one profile
    profile,    \* the profile's devices on the server and in the view, the handlers in flight
    \* the devices list view and its loading flag
    listView    \* isLoading, error, devices, the calls of loadDevices and what each got

clientVars == <<token, pc, call, sent, resp, outcome>>
helperVars == <<url, device, fn, ret>>
storeVars == <<file, lastSaved, got>>
viewVars == <<view, shown, tasks, event, session>>
profileVars == <<profile>>
listVars == <<listView>>

vars == <<clientVars, helperVars, storeVars, viewVars, profileVars, listVars>>

\* What each part leaves alone.
besidesClient == <<helperVars, storeVars, viewVars, profileVars, listVars>>
besidesHelpers == <<clientVars, storeVars, viewVars, profileVars, listVars>>
besidesStore == <<clientVars, helperVars, viewVars, profileVars, listVars>>
besidesViews == <<clientVars, helperVars, got, profileVars, listVars>>
besidesProfile == <<clientVars, helperVars, storeVars, viewVars, listVars>>
besidesList == <<clientVars, helperVars, storeVars, viewVars, profileVars>>

----------------------------------------------------------------------------
(* JavaScript values *)

BASE_URL == "https://api-user.e2ro.com"
USER_AGENT == "eero-ios/2.16.0 (iPhone8,1; iOS 11.3)"

\* The values null and undefined where a string is expected.
Null == "<null>"
Undefined == "<undefined>"

\* EeroAPIError.statusCode when it was not given (statusCode?: number).
NoStatus == -1

\* Truthiness of a string-or-null value: if (token), data?.meta?.error || ...
Truthy(s) == s # Null /\ s # Undefined /\ s # ""

\* The values of the fields of a request body, tagged with their type, so
\* that a field of any type can be asked whether it is undefined.
Str(s) == [t |-> "string", v |-> <<s>>]
Bool(b) == [t |-> "boolean", v |-> <<b>>]
Num(n) == [t |-> "number", v |-> <<n>>]
Arr(a) == [t |-> "array", v |-> a]
Undef == [t |-> "undefined", v |-> <<>>]

\* JSON.stringify of an object: a member whose value is undefined is left out.
Stringify(body) ==
    [f \in {g \in DOMAIN body : body[g].t # "undefined"} |-> body[f]]

----------------------------------------------------------------------------
(* Errors *)

Error(name, message, statusCode) ==
    [name |-> name, message |-> message, statusCode |-> statusCode]

\* new EeroAPIError(message, statusCode)
EeroAPIError(message, statusCode) == Error("EeroAPIError", message, statusCode)

NoError == Error("", "", NoStatus)

\* What fetch rejects with (a network failure): a TypeError with the
\* platform's message and no statusCode property.
FetchErrors == {Error("TypeError", "fetch failed", NoStatus)}

\* What response.json() throws on a body that is not JSON.
ParseError == Error("SyntaxError", "Unexpected token < in JSON at position 0", NoStatus)

\* What reading .data of a null response throws (outside request's try).
NullDataError == Error("TypeError", "Cannot read properties of null (reading 'data')", NoStatus)

Return(v) == [kind |-> "return", value |-> v, error |-> NoError]
Throw(e) == [kind |-> "throw", value |-> Undefined, error |-> e]
Pending == [kind |-> "pending", value |-> Undefined, error |-> NoError]

----------------------------------------------------------------------------
(* Responses *)

Statuses == {200, 404, 500}

\* response.ok
ok(status) == status >= 200 /\ status <= 299

NoMeta == [present |-> FALSE, error |-> Undefined]
Meta(e) == [present |-> TRUE, error |-> e]
Metas == {NoMeta} \cup {Meta(e) : e \in {Undefined, "", "not found"}}

\* The payloads a response may carry in its data member (opaque here).
Payloads == {"D1", "D2"}

\* A response body: text that is not JSON, the JSON value null, or a JSON
\* object with or without the members meta and data.
Unparseable == [json |-> "invalid", meta |-> NoMeta, data |-> Undefined]
JsonNull == [json |-> "null", meta |-> NoMeta, data |-> Undefined]
Object(m, d) == [json |-> "object", meta |-> m, data |-> d]
Bodies ==
    {Unparseable, JsonNull}
        \cup {Object(m, d) : m \in Metas, d \in Payloads \cup {Undefined}}

NoBodyRead == [json |-> "none", meta |-> NoMeta, data |-> Undefined]
Rejected(e) == [kind |-> "reject", error |-> e, status |-> 0, body |-> NoBodyRead]
Response(s, b) == [kind |-> "response", error |-> NoError, status |-> s, body |-> b]
NoResponse == [kind |-> "none", error |-> NoError, status |-> 0, body |-> NoBodyRead]

Responses ==
    {Rejected(e) : e \in FetchErrors}
        \cup {Response(s, b) : s \in Statuses, b \in Bodies}

----------------------------------------------------------------------------
(* EeroAPI: construction, setToken, request *)

\* constructor(token?): the token is kept only when it is truthy.
constructor(t) == IF Truthy(t) THEN t ELSE Null

\* setToken(token): this.token = token
setToken(t) == t

\* A request that never attaches the cookie.
HeadersNoCookie(tok) ==
    ("User-Agent" :> USER_AGENT) @@ ("Content-Type" :> "application/json")

\* The headers of a request: the two fixed ones, and the cookie when the
\* client's token is truthy.
Headers(tok) ==
    LET fixed == ("User-Agent" :> USER_AGENT) @@ ("Content-Type" :> "application/json")
    IN  IF Truthy(tok) THEN fixed @@ ("Cookie" :> ("s=" \o tok)) ELSE fixed

\* An optional body: <<>> when the operation passes none, <<b>> for object b
\* (an object is truthy, also the empty one).
NoBody == <<>>
Body(b) == <<b>>

\* request, up to the call of fetch: the url and options it hands to fetch.
request(tok, method, path, body) ==
    [method |-> method,
     url |-> BASE_URL \o path,
     headers |-> Headers(tok),
     body |-> IF Len(body) = 0 THEN NoBody ELSE Body(Stringify(body[1]))]

\* fetch(url, options): one request goes out.
fetch(log, options) == Append(log, options)

\* A request that ignores the vendor's error message.
errorMessageGeneric(data, status) ==
    "API error (status " \o ToString(status) \o ")"

\* data?.meta?.error || `API error (status ${response.status})`
errorMessage(data, status) ==
    LET error == IF data.json = "object" /\ data.meta.present
                 THEN data.meta.error ELSE Undefined
    IN  IF Truthy(error) THEN error
        ELSE "API error (status " \o ToString(status) \o ")"

\* A catch that wraps whatever it catches in a fresh generic error.
rethrowGeneric(error) == EeroAPIError("Network request failed", NoStatus)

\* request's catch: an EeroAPIError is rethrown as it is, anything else is
\* wrapped with its message (or a fixed text when it has none) and its
\* statusCode property.
rethrow(error) ==
    IF error.name = "EeroAPIError" THEN error
    ELSE EeroAPIError(IF error.message # "" THEN error.message
                      ELSE "Network request failed",
                      error.statusCode)

\* request, from the answer of fetch on: the parsed body, or the error thrown.
settle(r) ==
    IF r.kind = "reject" THEN Throw(rethrow(r.error))
    ELSE IF r.body.json = "invalid" THEN Throw(rethrow(ParseError))
    ELSE IF ~ok(r.status)
         THEN Throw(rethrow(EeroAPIError(errorMessage(r.body, r.status), r.status)))
    ELSE Return(r.body)

----------------------------------------------------------------------------
(* What an operation does with the result of its request *)

\* A read operation that awaits its request and forgets to return the data.
unwrapNoData(r) == IF r.kind = "throw" THEN r ELSE Return(Undefined)

\* const response = await this.request(...); return response.data;
unwrap(r) ==
    IF r.kind = "throw" THEN r
    ELSE IF r.value.json = "null" THEN Throw(NullDataError)
    ELSE Return(r.value.data)

\* await this.request(...);   (Promise<void>)
discard(r) == IF r.kind = "throw" THEN r ELSE Return(Undefined)

\* A validateToken without its catch: the failure of getAccount escapes.
validatedNoCatch(r) == IF unwrap(r).kind = "return" THEN Return(TRUE) ELSE unwrap(r)

\* try { await this.getAccount(); return true; } catch { return false; }
validated(r) == IF unwrap(r).kind = "return" THEN Return(TRUE) ELSE Return(FALSE)

Continue(then, r) ==
    CASE then = "data" -> unwrap(r)
      [] then = "void" -> discard(r)
      [] then = "bool" -> validated(r)

\* An operation up to its await: the token it leaves, the request it hands to
\* fetch (none when it returns at once), what it does with the answer, and its
\* result when it returns at once.
Plan(tok, options, then) ==
    [token |-> tok, fetch |-> <<options>>, then |-> then, result |-> Pending]
Early(tok, value) ==
    [token |-> tok, fetch |-> <<>>, then |-> "none", result |-> Return(value)]

----------------------------------------------------------------------------
(* The arguments the operations are called with *)

\* The longest list of device urls given to setProfileDevices.
MaxUrls == 2

\* Strings given as a token: to the constructor, to setToken, to loginVerify.
Tokens == {"", "abc123", "tok2"}
Identities == {"user@example.com"}
Codes == {"042117"}
NetworkIds == {"n1"}
DeviceIds == {"d1"}
ProfileIds == {"p1"}
EeroIds == {"e1"}
ReservationIds == {"r1"}
ForwardIds == {"f1"}
Nicknames == {"tv"}
Passwords == {"guestpw"}
Ips == {"192.168.4.20"}
Macs == {"aa:bb:cc:dd:ee:ff"}
Ports == {80, 8080}
Protocols == {"tcp"}
\* A description, or undefined where it is optional.
Descriptions == {Str("web")}
DeviceUrls == {"/2.2/networks/n1/devices/d1", "/2.2/networks/n1/devices/d2"}

SeqsUpTo(S, n) == UNION {[1..k -> S] : k \in 0..n}
DeviceUrlLists == SeqsUpTo(DeviceUrls, MaxUrls)

\* The object {}.
EmptyObject == [f \in {} |-> Undef]

\* Partial<PortForward> values given to updatePortForward: nothing, one
\* field, and the whole rule as PortForwarding.handleToggle passes it (the
\* description of a rule is optional, so it may be undefined there).
Updates ==
    {EmptyObject} \cup {[enabled |-> Bool(b)] : b \in BOOLEAN}
        \cup {[ip |-> Str(ip), gateway_port |-> Num(80), client_port |-> Num(8080),
               protocol |-> Str("tcp"), enabled |-> Bool(b), description |-> d] :
                 ip \in Ips, b \in BOOLEAN, d \in Descriptions \cup {Undef}}

----------------------------------------------------------------------------
(* The operations of EeroAPI, each up to its await *)

\* A login that keeps the identity it was given as the client's token.
loginKeepsToken(tok, identity) ==
    Plan(identity, request(tok, "POST", "/2.2/login", Body([login |-> Str(identity)])), "data")

login(tok, identity) ==
    Plan(tok, request(tok, "POST", "/2.2/login", Body([login |-> Str(identity)])), "data")

\* A loginVerify that issues its request before it sets the token.
loginVerifyRequestFirst(tok, userToken, code) ==
    Plan(setToken(userToken),
         request(tok, "POST", "/2.2/login/verify", Body([code |-> Str(code)])), "void")

loginVerify(tok, userToken, code) ==
    LET t == setToken(userToken)
    IN  Plan(t, request(t, "POST", "/2.2/login/verify", Body([code |-> Str(code)])), "void")

getAccount(tok) ==
    Plan(tok, request(tok, "GET", "/2.2/account", NoBody), "data")

\* A validateToken without its early return.
validateTokenNoGuard(tok) == [getAccount(tok) EXCEPT !.then = "bool"]

validateToken(tok) ==
    IF ~Truthy(tok) THEN Early(tok, FALSE)
    ELSE [getAccount(tok) EXCEPT !.then = "bool"]

getDevices(tok, networkId) ==
    Plan(tok, request(tok, "GET", "/2.2/networks/" \o networkId \o "/devices", NoBody), "data")

\* A pauseDevice that sends the other flag of the device along.
pauseDeviceBothFlags(tok, networkId, deviceId, paused) ==
    Plan(tok, request(tok, "PUT", "/2.2/networks/" \o networkId \o "/devices/" \o deviceId,
                      Body([paused |-> Bool(paused), blocked |-> Bool(FALSE)])), "void")

pauseDevice(tok, networkId, deviceId, paused) ==
    Plan(tok, request(tok, "PUT", "/2.2/networks/" \o networkId \o "/devices/" \o deviceId,
                      Body([paused |-> Bool(paused)])), "void")

blockDevice(tok, networkId, deviceId, blocked) ==
    Plan(tok, request(tok, "PUT", "/2.2/networks/" \o networkId \o "/devices/" \o deviceId,
                      Body([blocked |-> Bool(blocked)])), "void")

renameDevice(tok, networkId, deviceId, nickname) ==
    Plan(tok, request(tok, "PUT", "/2.2/networks/" \o networkId \o "/devices/" \o deviceId,
                      Body([nickname |-> Str(nickname)])), "void")

getProfiles(tok, networkId) ==
    Plan(tok, request(tok, "GET", "/2.2/networks/" \o networkId \o "/profiles", NoBody), "data")

getProfileDetails(tok, networkId, profileId) ==
    Plan(tok, request(tok, "GET", "/2.2/networks/" \o networkId \o "/profiles/" \o profileId,
                      NoBody), "data")

pauseProfile(tok, networkId, profileId, paused) ==
    Plan(tok, request(tok, "PUT", "/2.2/networks/" \o networkId \o "/profiles/" \o profileId,
                      Body([paused |-> Bool(paused)])), "void")

setProfileDevices(tok, networkId, profileId, deviceUrls) ==
    LET devices == [i \in 1..Len(deviceUrls) |-> [url |-> Str(deviceUrls[i])]]
    IN  Plan(tok, request(tok, "PUT", "/2.2/networks/" \o networkId \o "/profiles/" \o profileId,
                          Body([devices |-> Arr(devices)])), "void")

getEeros(tok, networkId) ==
    Plan(tok, request(tok, "GET", "/2.2/networks/" \o networkId \o "/eeros", NoBody), "data")

rebootEero(tok, eeroId) ==
    Plan(tok, request(tok, "POST", "/2.2/eeros/" \o eeroId \o "/reboot", NoBody), "void")

getGuestNetwork(tok, networkId) ==
    Plan(tok, request(tok, "GET", "/2.2/networks/" \o networkId \o "/guestnetwork", NoBody), "data")

enableGuestNetwork(tok, networkId, enabled) ==
    Plan(tok, request(tok, "PUT", "/2.2/networks/" \o networkId \o "/guestnetwork",
                      Body([enabled |-> Bool(enabled)])), "void")

setGuestNetworkPassword(tok, networkId, password) ==
    Plan(tok, request(tok, "PUT", "/2.2/networks/" \o networkId \o "/guestnetwork",
                      Body([password |-> Str(password)])), "void")

rebootNetwork(tok, networkId) ==
    Plan(tok, request(tok, "POST", "/2.2/networks/" \o networkId \o "/reboot", NoBody), "void")

getReservations(tok, networkId) ==
    Plan(tok, request(tok, "GET", "/2.2/networks/" \o networkId \o "/reservations", NoBody), "data")

createReservation(tok, networkId, ip, mac, description) ==
    Plan(tok, request(tok, "POST", "/2.2/networks/" \o networkId \o "/reservations",
                      Body([ip |-> Str(ip), mac |-> Str(mac),
                            description |-> Str(description)])), "void")

deleteReservation(tok, networkId, reservationId) ==
    Plan(tok, request(tok, "DELETE",
                      "/2.2/networks/" \o networkId \o "/reservations/" \o reservationId,
                      NoBody), "void")

getPortForwards(tok, networkId) ==
    Plan(tok, request(tok, "GET", "/2.2/networks/" \o networkId \o "/forwards", NoBody), "data")

createPortForward(tok, networkId, ip, gatewayPort, clientPort, protocol, description) ==
    Plan(tok, request(tok, "POST", "/2.2/networks/" \o networkId \o "/forwards",
                      Body([ip |-> Str(ip), gateway_port |-> Num(gatewayPort),
                            client_port |-> Num(clientPort), protocol |-> Str(protocol),
                            enabled |-> Bool(TRUE), description |-> description])), "void")

updatePortForward(tok, networkId, forwardId, updates) ==
    Plan(tok, request(tok, "PUT", "/2.2/networks/" \o networkId \o "/forwards/" \o forwardId,
                      Body(updates)), "void")

deletePortForward(tok, networkId, forwardId) ==
    Plan(tok, request(tok, "DELETE", "/2.2/networks/" \o networkId \o "/forwards/" \o forwardId,
                      NoBody), "void")

----------------------------------------------------------------------------
(* The parts of the program that a specification leaves at rest *)

\* No device: the display helpers have been given nothing.
NoDevice ==
    [nickname |-> Undefined, hostname |-> Undefined, mac |-> Undefined,
     ip |-> Undefined, ipv6_addresses |-> Undef]

HelpersIdle ==
    /\ url = Undefined
    /\ device = NoDevice
    /\ fn = "none"
    /\ ret = Undefined

\* The object {} as an EeroConfig: neither member is there.
EmptyConfig == [token |-> Undefined, network_id |-> Undefined]

\* The config file does not exist.
NoFile == [exists |-> FALSE, text |-> "", whole |-> FALSE]

\* No saveConfig has completed; no getConfig has returned.
NoSave == [saved |-> FALSE, config |-> EmptyConfig]
NotRead == [kind |-> "pending", value |-> EmptyConfig, read |-> FALSE]

StoreIdle ==
    /\ file = NoFile
    /\ lastSaved = NoSave
    /\ got = NotRead

\* How many handler invocations the user has in flight at once.
MaxTasks == 2

\* A collection that was not loaded yet (useState() without a value).
NoData == "<no data>"

\* A fresh view: nothing loaded, no code requested, no status yet.
NoShown ==
    [collection |-> NoData, details |-> NoData, allDevices |-> NoData,
     devices |-> [of |-> NoData, from |-> NoData],
     userToken |-> "", authStatus |-> "unknown"]

\* A slot without a handler invocation.
Free ==
    [handler |-> "none", pc |-> "free", reqs |-> <<>>, after |-> "none",
     mounted |-> FALSE, userToken |-> ""]

NoToast == [style |-> "none", message |-> ""]

NoEvent ==
    [did |-> "none", handler |-> "none", op |-> "none", value |-> Undefined,
     error |-> NoError, issued |-> <<>>, toast |-> NoToast]

ViewsIdle ==
    /\ view = "root"
    /\ shown = NoShown
    /\ tasks = [slot \in 1..MaxTasks |-> Free]
    /\ event = NoEvent
    /\ session = "fresh"

\* The devices of the network a profile can hold, by url.
ProfileDevices == {"/devices/d1", "/devices/d2"}

\* No handler of the profile detail has run a step.
NoStep == [did |-> "none", handler |-> "none", device |-> "", deviceUrls |-> <<>>]

\* The profile detail is not on screen: useState() for details, nothing in
\* flight, no change made.
NoProfile ==
    [server |-> <<>>, details |-> [loaded |-> FALSE, devices |-> <<>>], flights |-> <<>>,
     effects |-> [d \in ProfileDevices |-> "none"], clicks |-> 0, last |-> NoStep]

ProfileIdle == profile = NoProfile

\* No step of the devices list.
NoListStep == [did |-> "none", handler |-> "none", nth |-> 0, toast |-> NoToast]

\* The devices list is not on screen: useState(true) for isLoading,
\* useState() for error, no devices, loadDevices not called.
NoList ==
    [isLoading |-> TRUE, error |-> Undefined, devices |-> NoData, flights |-> <<>>,
     calls |-> 0, answers |-> <<>>, last |-> NoListStep]

ListIdle == listView = NoList

NoCall == [op |-> "none", args |-> EmptyObject, tokenBefore |-> Null, then |-> "none"]

ClientIdle ==
    /\ token = Null
    /\ pc = "idle"
    /\ call = NoCall
    /\ sent = <<>>
    /\ resp = NoResponse
    /\ outcome = Pending

----------------------------------------------------------------------------
(* The state machine *)

\* new EeroAPI(token?): the views construct the client with the stored token
\* or, in the login form, without one.
Init ==
    /\ \E t \in Tokens \cup {Undefined} : token = constructor(t)
    /\ pc = "idle"
    /\ call = NoCall
    /\ sent = <<>>
    /\ resp = NoResponse
    /\ outcome = Pending
    /\ HelpersIdle
    /\ StoreIdle
    /\ ViewsIdle
    /\ ProfileIdle
    /\ ListIdle

\* api.setToken(t)
SetToken ==
    /\ pc = "idle"
    /\ \E t \in Tokens : token' = setToken(t)
    /\ UNCHANGED <<pc, call, sent, resp, outcome>>
    /\ UNCHANGED besidesClient

\* An operation runs up to its await: it may write the token, hands its
\* request to fetch, and suspends; or it returns at once.
Issue(op, args, plan) ==
    /\ pc = "idle"
    /\ call' = [op |-> op, args |-> args, tokenBefore |-> token, then |-> plan.then]
    /\ token' = plan.token
    /\ sent' = IF Len(plan.fetch) = 0 THEN <<>> ELSE fetch(<<>>, plan.fetch[1])
    /\ pc' = IF Len(plan.fetch) = 0 THEN "done" ELSE "awaiting"
    /\ resp' = NoResponse
    /\ outcome' = plan.result

\* An operation called by a handler that the model does not follow.
Invoke(op, args, plan) ==
    /\ Issue(op, args, plan)
    /\ UNCHANGED besidesClient

Login ==
    \E identity \in Identities :
        Invoke("login", [identity |-> identity], login(token, identity))

LoginVerify ==
    \E userToken \in Tokens, code \in Codes :
        Invoke("loginVerify", [userToken |-> userToken, code |-> code],
               loginVerify(token, userToken, code))

GetAccount == Invoke("getAccount", EmptyObject, getAccount(token))

ValidateToken == Invoke("validateToken", EmptyObject, validateToken(token))

GetDevices ==
    \E n \in NetworkIds : Invoke("getDevices", [networkId |-> n], getDevices(token, n))

PauseDevice ==
    \E n \in NetworkIds, d \in DeviceIds, paused \in BOOLEAN :
        Invoke("pauseDevice", [networkId |-> n, deviceId |-> d, paused |-> paused],
               pauseDevice(token, n, d, paused))

BlockDevice ==
    \E n \in NetworkIds, d \in DeviceIds, blocked \in BOOLEAN :
        Invoke("blockDevice", [networkId |-> n, deviceId |-> d, blocked |-> blocked],
               blockDevice(token, n, d, blocked))

RenameDevice ==
    \E n \in NetworkIds, d \in DeviceIds, nickname \in Nicknames :
        Invoke("renameDevice", [networkId |-> n, deviceId |-> d, nickname |-> nickname],
               renameDevice(token, n, d, nickname))

GetProfiles ==
    \E n \in NetworkIds : Invoke("getProfiles", [networkId |-> n], getProfiles(token, n))

GetProfileDetails ==
    \E n \in NetworkIds, p \in ProfileIds :
        Invoke("getProfileDetails", [networkId |-> n, profileId |-> p],
               getProfileDetails(token, n, p))

PauseProfile ==
    \E n \in NetworkIds, p \in ProfileIds, paused \in BOOLEAN :
        Invoke("pauseProfile", [networkId |-> n, profileId |-> p, paused |-> paused],
               pauseProfile(token, n, p, paused))

SetProfileDevices ==
    \E n \in NetworkIds, p \in ProfileIds, deviceUrls \in DeviceUrlLists :
        Invoke("setProfileDevices",
               [networkId |-> n, profileId |-> p, deviceUrls |-> deviceUrls],
               setProfileDevices(token, n, p, deviceUrls))

GetEeros ==
    \E n \in NetworkIds : Invoke("getEeros", [networkId |-> n], getEeros(token, n))

RebootEero ==
    \E e \in EeroIds : Invoke("rebootEero", [eeroId |-> e], rebootEero(token, e))

GetGuestNetwork ==
    \E n \in NetworkIds :
        Invoke("getGuestNetwork", [networkId |-> n], getGuestNetwork(token, n))

EnableGuestNetwork ==
    \E n \in NetworkIds, enabled \in BOOLEAN :
        Invoke("enableGuestNetwork", [networkId |-> n, enabled |-> enabled],
               enableGuestNetwork(token, n, enabled))

SetGuestNetworkPassword ==
    \E n \in NetworkIds, password \in Passwords :
        Invoke("setGuestNetworkPassword", [networkId |-> n, password |-> password],
               setGuestNetworkPassword(token, n, password))

RebootNetwork ==
    \E n \in NetworkIds : Invoke("rebootNetwork", [networkId |-> n], rebootNetwork(token, n))

GetReservations ==
    \E n \in NetworkIds :
        Invoke("getReservations", [networkId |-> n], getReservations(token, n))

CreateReservation ==
    \E n \in NetworkIds, ip \in Ips, mac \in Macs, d \in Descriptions :
        Invoke("createReservation",
               [networkId |-> n, ip |-> ip, mac |-> mac, description |-> d.v[1]],
               createReservation(token, n, ip, mac, d.v[1]))

DeleteReservation ==
    \E n \in NetworkIds, r \in ReservationIds :
        Invoke("deleteReservation", [networkId |-> n, reservationId |-> r],
               deleteReservation(token, n, r))

GetPortForwards ==
    \E n \in NetworkIds :
        Invoke("getPortForwards", [networkId |-> n], getPortForwards(token, n))

CreatePortForward ==
    \E n \in NetworkIds, ip \in Ips, gatewayPort \in Ports, clientPort \in Ports,
       protocol \in Protocols, d \in Descriptions \cup {Undef} :
        Invoke("createPortForward",
               [networkId |-> n, ip |-> ip, gatewayPort |-> gatewayPort,
                clientPort |-> clientPort, protocol |-> protocol, description |-> d],
               createPortForward(token, n, ip, gatewayPort, clientPort, protocol, d))

UpdatePortForward ==
    \E n \in NetworkIds, f \in ForwardIds, updates \in Updates :
        Invoke("updatePortForward", [networkId |-> n, forwardId |-> f, updates |-> updates],
               updatePortForward(token, n, f, updates))

DeletePortForward ==
    \E n \in NetworkIds, f \in ForwardIds :
        Invoke("deletePortForward", [networkId |-> n, forwardId |-> f],
               deletePortForward(token, n, f))

\* A request that is sent once more when it failed.
RespondRetry ==
    /\ pc = "awaiting"
    /\ \E r \in Responses :
        /\ resp' = r
        /\ IF settle(r).kind = "throw" /\ Len(sent) < 2
           THEN /\ sent' = fetch(sent, sent[1])
                /\ pc' = "awaiting"
                /\ outcome' = outcome
           ELSE /\ sent' = sent
                /\ pc' = "done"
                /\ outcome' = Continue(call.then, settle(r))
    /\ UNCHANGED <<token, call>>
    /\ UNCHANGED besidesClient

\* fetch settles (it resolves with a response or rejects), and the rest of
\* request and of the operation runs: the operation settles.
Respond ==
    /\ pc = "awaiting"
    /\ \E r \in Responses :
        /\ resp' = r
        /\ outcome' = Continue(call.then, settle(r))
    /\ pc' = "done"
    /\ UNCHANGED <<token, call, sent>>
    /\ UNCHANGED besidesClient

\* The caller takes the result; the client is free for the next operation.
Resumed ==
    /\ pc = "done"
    /\ pc' = "idle"
    /\ call' = NoCall
    /\ sent' = <<>>
    /\ resp' = NoResponse
    /\ outcome' = Pending
    /\ UNCHANGED token

Resume ==
    /\ Resumed
    /\ UNCHANGED besidesClient

Next ==
    \/ SetToken
    \/ Login \/ LoginVerify \/ GetAccount \/ ValidateToken
    \/ GetDevices \/ PauseDevice \/ BlockDevice \/ RenameDevice
    \/ GetProfiles \/ GetProfileDetails \/ PauseProfile \/ SetProfileDevices
    \/ GetEeros \/ RebootEero
    \/ GetGuestNetwork \/ EnableGuestNetwork \/ SetGuestNetworkPassword
    \/ RebootNetwork
    \/ GetReservations \/ CreateReservation \/ DeleteReservation
    \/ GetPortForwards \/ CreatePortForward \/ UpdatePortForward \/ DeletePortForward
    \/ Respond
    \/ Resume

Spec == Init /\ [][Next]_vars

----------------------------------------------------------------------------
(* Vocabulary of the properties *)

ReadOps ==
    {"login", "getAccount", "getDevices", "getProfiles", "getProfileDetails",
     "getEeros", "getGuestNetwork", "getReservations", "getPortForwards"}

\* The operation has handed a request to fetch (it is suspended or settled).
Issued == pc \in {"awaiting", "done"} /\ Len(sent) > 0

\* fetch answered with a response (it did not reject).
Answered == pc = "done" /\ resp.kind = "response"

\* The body of the response is JSON.
Parsed == resp.body.json \in {"null", "object"}

\* The client holds a token: a non-empty string. The empty string stands for
\* "no token" throughout the program (constructor, request, validateToken).
HasToken == token # Null /\ token # ""

\* "API error (status N)"
GenericMessage(n) == "API error (status " \o ToString(n) \o ")"

\* The message of the error for a non-success status: the vendor's, when the
\* body has a non-empty meta.error, else the generic one.
StatusMessage ==
    IF /\ resp.body.json = "object"
       /\ resp.body.meta.present
       /\ resp.body.meta.error \notin {Undefined, ""}
    THEN resp.body.meta.error
    ELSE GenericMessage(resp.status)

\* The request of the outstanding or settled invocation failed.
RequestFailed ==
    \/ resp.kind = "reject"
    \/ resp.kind = "response" /\ (resp.body.json = "invalid" \/ ~ok(resp.status))

----------------------------------------------------------------------------
(* C1 (as amended): for every operation other than validateToken, when the  *)
(* response has a non-success status N and its body is JSON, the operation  *)
(* fails with an EeroAPIError whose statusCode is N and whose message is    *)
(* the body's meta.error when that is present and not empty, otherwise      *)
(* "API error (status N)". When the body is not JSON the operation fails    *)
(* with an EeroAPIError that carries the parse error's message and no       *)
(* status code.                                                             *)
C1_NonSuccessStatus ==
    (Answered /\ call.op # "validateToken" /\ ~ok(resp.status)) =>
        /\ outcome.kind = "throw"
        /\ outcome.error.name = "EeroAPIError"
        /\ IF Parsed
           THEN /\ outcome.error.statusCode = resp.status
                /\ outcome.error.message = StatusMessage
           ELSE /\ outcome.error.statusCode = NoStatus
                /\ outcome.error.message = ParseError.message

\* C1 as stated: the status code and message are those of the response
\* whatever the response body is.
C1_AsStated ==
    (Answered /\ call.op # "validateToken" /\ ~ok(resp.status)) =>
        /\ outcome.kind = "throw"
        /\ outcome.error.name = "EeroAPIError"
        /\ outcome.error.statusCode = resp.status
        /\ outcome.error.message = StatusMessage

\* Status 404 with {meta: {error: "not found"}}: "not found", 404.
C1_Witness ==
    /\ Answered
    /\ call.op = "getDevices"
    /\ resp.status = 404
    /\ resp.body = Object(Meta("not found"), Undefined)
    /\ outcome = Throw(EeroAPIError("not found", 404))

(* C2: when a request fails because fetch rejects or because the body is    *)
(* not JSON, the operation fails with an EeroAPIError that carries the      *)
(* underlying error's message and no status code; the EeroAPIError thrown   *)
(* for a non-success status passes through the catch with its message and   *)
(* statusCode unchanged.                                                    *)
C2_OtherFailures ==
    (pc = "done" /\ call.op # "validateToken") =>
        /\ resp.kind = "reject" =>
             outcome = Throw(EeroAPIError(resp.error.message, NoStatus))
        /\ (resp.kind = "response" /\ resp.body.json = "invalid") =>
             outcome = Throw(EeroAPIError(ParseError.message, NoStatus))
        /\ (resp.kind = "response" /\ Parsed /\ ~ok(resp.status)) =>
             /\ outcome.kind = "throw"
             /\ outcome.error.name = "EeroAPIError"
             /\ outcome.error.statusCode = resp.status
             /\ outcome.error.message = StatusMessage

\* fetch rejects: the error carries its message and no status code.
C2_Witness ==
    /\ pc = "done"
    /\ call.op = "pauseDevice"
    /\ resp.kind = "reject"
    /\ outcome = Throw(EeroAPIError("fetch failed", NoStatus))

(* C3: every read operation, when the status is a success and the body is   *)
(* an envelope {meta, data}, returns exactly the data member.               *)
C3_ReadReturnsData ==
    (/\ Answered
     /\ call.op \in ReadOps
     /\ ok(resp.status)
     /\ resp.body.json = "object"
     /\ resp.body.meta.present
     /\ resp.body.data \in Payloads) =>
        outcome = Return(resp.body.data)

C3_Witness ==
    /\ Answered
    /\ call.op = "getProfileDetails"
    /\ resp.status = 200
    /\ resp.body = Object(Meta(Undefined), "D2")
    /\ outcome.kind = "return"
    /\ outcome.value = "D2"

(* C4: every request carries the fixed User-Agent and the Content-Type      *)
(* application/json; it carries Cookie: s=<token> with the client's current *)
(* token when the client holds a token, and no Cookie header when it holds  *)
(* none; it carries no other header.                                        *)
C4_Headers ==
    Issued =>
        \A i \in 1..Len(sent) :
            LET headers == sent[i].headers
            IN  /\ headers["User-Agent"] = USER_AGENT
                /\ headers["Content-Type"] = "application/json"
                /\ HasToken =>
                     /\ DOMAIN headers = {"User-Agent", "Content-Type", "Cookie"}
                     /\ headers["Cookie"] = "s=" \o token
                /\ ~HasToken => DOMAIN headers = {"User-Agent", "Content-Type"}

\* A request of a client that holds the token tok2.
C4_Witness ==
    /\ pc = "awaiting"
    /\ call.op = "getAccount"
    /\ token = "tok2"
    /\ sent[1].headers["Cookie"] = "s=tok2"

(* C5 (as amended): every invocation of a public operation issues exactly   *)
(* one HTTP request, except validateToken on a client that holds no token,  *)
(* which returns false without issuing any.                                 *)
C5_OneRequestPerCall ==
    /\ pc = "awaiting" => Len(sent) = 1
    /\ pc = "done" =>
         Len(sent) = IF call.op = "validateToken" /\ ~HasToken THEN 0 ELSE 1

\* C5 as stated: exactly one request in every client state, whether or not
\* a token is set.
C5_AsStated == pc = "done" => Len(sent) = 1

\* validateToken on a client constructed without a token.
C5_Witness ==
    /\ pc = "done"
    /\ call.op = "validateToken"
    /\ token = Null
    /\ sent = <<>>
    /\ outcome.kind = "return"
    /\ outcome.value = FALSE

(* C6: validateToken never fails; it returns true exactly when the client   *)
(* holds a token and getAccount with it succeeds, and false for every       *)
(* failure of that call and when the client holds no token. Every other     *)
(* operation lets the error of its request reach the caller.                *)
C6_ValidateToken ==
    pc = "done" =>
        IF call.op = "validateToken"
        THEN /\ outcome.kind = "return"
             /\ outcome.value \in BOOLEAN
             /\ outcome.value <=>
                  /\ HasToken
                  /\ Len(sent) = 1
                  /\ ~RequestFailed
                  /\ resp.body.json = "object"
        ELSE /\ RequestFailed =>
                  /\ outcome.kind = "throw"
                  /\ outcome.error.name = "EeroAPIError"
             /\ (~RequestFailed /\ call.op \in ReadOps /\ resp.body.json = "null") =>
                  outcome = Throw(NullDataError)

\* getAccount fails on the network: validateToken answers false.
C6_Witness ==
    /\ pc = "done"
    /\ call.op = "validateToken"
    /\ token = "abc123"
    /\ resp.kind = "reject"
    /\ outcome.kind = "return"
    /\ outcome.value = FALSE

(* C7: loginVerify(token, code) sets the client's token to the given token  *)
(* before it issues its request: the single POST /login/verify it sends     *)
(* carries the cookie s=<token> (no cookie for the empty string, which the  *)
(* client takes for no token) and the body {code} and nothing else; the     *)
(* token stays the given one after the call, whether it succeeds or fails.  *)
C7_LoginVerify ==
    (pc \in {"awaiting", "done"} /\ call.op = "loginVerify") =>
        /\ token = call.args.userToken
        /\ Len(sent) = 1
        /\ sent[1].method = "POST"
        /\ sent[1].url = BASE_URL \o "/2.2/login/verify"
        /\ sent[1].body = Body([code |-> Str(call.args.code)])
        /\ IF call.args.userToken # ""
           THEN /\ "Cookie" \in DOMAIN sent[1].headers
                /\ sent[1].headers["Cookie"] = "s=" \o call.args.userToken
           ELSE "Cookie" \notin DOMAIN sent[1].headers

\* The verify request failed; the client, constructed without a token,
\* holds the token it was given and sent it.
C7_Witness ==
    /\ pc = "done"
    /\ call.op = "loginVerify"
    /\ call.tokenBefore = Null
    /\ call.args.userToken = "abc123"
    /\ outcome.kind = "throw"
    /\ token = "abc123"
    /\ sent[1].headers["Cookie"] = "s=abc123"

(* C8: no operation is retried: an invocation never hands more than one     *)
(* request to fetch, an operation whose request failed has issued exactly   *)
(* that one request, and no request exists outside the one invocation in    *)
(* progress.                                                                *)
C8_NoRetry ==
    /\ Len(sent) <= 1
    /\ pc = "idle" => sent = <<>>
    /\ (pc = "done" /\ outcome.kind = "throw") => Len(sent) = 1

\* A failed operation: status 500, one request.
C8_Witness ==
    /\ pc = "done"
    /\ call.op = "rebootNetwork"
    /\ resp.kind = "response"
    /\ resp.status = 500
    /\ outcome.kind = "throw"
    /\ Len(sent) = 1

\* The members of a sent body.
Members(body) == IF Len(body) = 0 THEN {} ELSE DOMAIN body[1]

\* The operations whose body is made of what the caller passes in.
SuppliedOps == {"createReservation", "createPortForward", "updatePortForward"}

\* The members of the body that the caller supplied to such an operation
\* (the description of createPortForward is optional).
Supplied ==
    CASE call.op = "createReservation" -> {"ip", "mac", "description"}
      [] call.op = "createPortForward" ->
            {"ip", "gateway_port", "client_port", "protocol"}
                \cup (IF call.args.description.t = "undefined" THEN {} ELSE {"description"})
      [] call.op = "updatePortForward" ->
            {f \in DOMAIN call.args.updates : call.args.updates[f].t # "undefined"}

\* The values the caller supplied, under the names they are sent with.
SuppliedValue(f) ==
    CASE call.op = "createReservation" -> Str(call.args[f])
      [] call.op = "createPortForward" ->
            (CASE f = "ip" -> Str(call.args.ip)
               [] f = "gateway_port" -> Num(call.args.gatewayPort)
               [] f = "client_port" -> Num(call.args.clientPort)
               [] f = "protocol" -> Str(call.args.protocol)
               [] f = "description" -> call.args.description)
      [] call.op = "updatePortForward" -> call.args.updates[f]

\* The operations the claim names with their body: each sends the one field
\* it changes; the reboots and deletions send no body.
NamedBodies ==
    Issued =>
        LET body == sent[1].body
            args == call.args
        IN  CASE call.op = "pauseDevice" -> body = Body([paused |-> Bool(args.paused)])
              [] call.op = "blockDevice" -> body = Body([blocked |-> Bool(args.blocked)])
              [] call.op = "renameDevice" -> body = Body([nickname |-> Str(args.nickname)])
              [] call.op = "pauseProfile" -> body = Body([paused |-> Bool(args.paused)])
              [] call.op = "setProfileDevices" ->
                    /\ Members(body) = {"devices"}
                    /\ body[1].devices.t = "array"
                    /\ Len(body[1].devices.v) = Len(args.deviceUrls)
                    /\ \A i \in 1..Len(args.deviceUrls) :
                          body[1].devices.v[i] = [url |-> Str(args.deviceUrls[i])]
              [] call.op = "enableGuestNetwork" -> body = Body([enabled |-> Bool(args.enabled)])
              [] call.op = "setGuestNetworkPassword" ->
                    body = Body([password |-> Str(args.password)])
              [] call.op \in {"rebootEero", "rebootNetwork", "deleteReservation",
                              "deletePortForward"} -> body = NoBody
              [] OTHER -> TRUE

(* C9 (as amended): the body of every mutating request contains only the    *)
(* fields the caller asked to change: pauseDevice sends {paused},           *)
(* blockDevice {blocked}, renameDevice {nickname}, pauseProfile {paused},   *)
(* setProfileDevices {devices}, enableGuestNetwork {enabled},               *)
(* setGuestNetworkPassword {password}; createReservation and                *)
(* updatePortForward send exactly the fields the caller supplied;           *)
(* createPortForward sends the fields the caller supplied and, beyond       *)
(* them, the fixed field enabled: true.                                     *)
C9_BodyFields ==
    /\ NamedBodies
    /\ (Issued /\ call.op \in SuppliedOps) =>
          LET body == sent[1].body
          IN  /\ Len(body) = 1
              /\ Members(body) =
                    Supplied \cup (IF call.op = "createPortForward" THEN {"enabled"} ELSE {})
              /\ \A f \in Supplied : body[1][f] = SuppliedValue(f)
              /\ call.op = "createPortForward" => body[1].enabled = Bool(TRUE)

\* C9 as stated: createReservation, createPortForward and updatePortForward
\* send no field beyond those the caller supplied.
C9_AsStated ==
    /\ NamedBodies
    /\ (Issued /\ call.op \in SuppliedOps) => Members(sent[1].body) \subseteq Supplied

\* createPortForward without a description.
C9_Witness ==
    /\ pc = "awaiting"
    /\ call.op = "createPortForward"
    /\ call.args.description = Undef
    /\ Members(sent[1].body) = {"ip", "gateway_port", "client_port", "protocol", "enabled"}
    /\ sent[1].body[1].enabled = Bool(TRUE)

(* C10 (as amended): the token is written only at construction, by the      *)
(* setter setToken, and by loginVerify, which sets it to the token it is    *)
(* given; every other operation leaves the token unchanged, on success and  *)
(* on failure.                                                              *)
C10_TokenWrittenOnlyBySetters ==
    [][token' # token =>
        /\ pc = "idle"
        /\ \/ pc' = "idle"
           \/ call'.op = "loginVerify" /\ token' = call'.args.userToken]_vars

\* C10 as stated: only the explicit setter writes the token; login,
\* loginVerify and every other operation leave it unchanged.
C10_AsStated == [][token' # token => (pc = "idle" /\ pc' = "idle")]_vars

\* loginVerify has replaced the token of the client.
C10_Witness ==
    /\ pc = "done"
    /\ call.op = "loginVerify"
    /\ call.tokenBefore = "tok2"
    /\ token = "abc123"
    /\ token = call.args.userToken

----------------------------------------------------------------------------
(***************************************************************************)
(* The helper functions of api.ts: the ID extractors and the two display   *)
(* helpers.  SpecHelpers gives one helper one input and records what it    *)
(* returns.                                                                *)
(***************************************************************************)

(* Strings *)

\* String.prototype.startsWith(prefix)
startsWith(s, prefix) ==
    Len(s) >= Len(prefix) /\ SubSeq(s, 1, Len(prefix)) = prefix

\* String.prototype.substring(start), 0 <= start <= s.length
substring(s, start) == SubSeq(s, start + 1, Len(s))

\* s has marker at the 0-based index i.
matchesAt(s, marker, i) ==
    i >= 0 /\ i + Len(marker) <= Len(s) /\ SubSeq(s, i + 1, i + Len(marker)) = marker

RECURSIVE searchBackwards(_, _, _)
searchBackwards(s, marker, i) ==
    IF i < 0 THEN -1
    ELSE IF matchesAt(s, marker, i) THEN i
    ELSE searchBackwards(s, marker, i - 1)

\* String.prototype.lastIndexOf(marker): the search runs from the end.
lastIndexOf(s, marker) == searchBackwards(s, marker, Len(s) - Len(marker))

RECURSIVE searchForwards(_, _, _)
searchForwards(s, marker, i) ==
    IF i + Len(marker) > Len(s) THEN -1
    ELSE IF matchesAt(s, marker, i) THEN i
    ELSE searchForwards(s, marker, i + 1)

\* String.prototype.indexOf(marker)
indexOf(s, marker) == searchForwards(s, marker, 0)

\* s.split("/")[0]: the text before the first "/", all of s when it has none.
splitFirst(s) ==
    LET index == indexOf(s, "/")
    IN  IF index < 0 THEN s ELSE SubSeq(s, 1, index)

(* ID extractors *)

\* An extractor that cuts at the prefix wherever it stands in the url.
extractNetworkIDAnywhere(u) ==
    LET prefix == "/2.2/networks/"
        index == indexOf(u, prefix)
    IN  IF index < 0 THEN u ELSE substring(u, index + Len(prefix))

extractNetworkID(u) ==
    LET prefix == "/2.2/networks/"
    IN  IF ~startsWith(u, prefix) THEN u ELSE substring(u, Len(prefix))

\* An extractor that cuts at the first occurrence of the marker.
extractDeviceIDFirst(u) ==
    LET marker == "/devices/"
        index == indexOf(u, marker)
    IN  IF index < 0 THEN u ELSE substring(u, index + Len(marker))

extractDeviceID(u) ==
    LET marker == "/devices/"
        index == lastIndexOf(u, marker)
    IN  IF index < 0 THEN u ELSE substring(u, index + Len(marker))

\* An extractor of profile ids that cuts at the first occurrence of the marker.
extractProfileIDFirst(u) ==
    LET marker == "/profiles/"
        index == indexOf(u, marker)
    IN  IF index < 0 THEN u ELSE substring(u, index + Len(marker))

extractProfileID(u) ==
    LET marker == "/profiles/"
        index == lastIndexOf(u, marker)
    IN  IF index < 0 THEN u ELSE substring(u, index + Len(marker))

extractEeroID(u) ==
    LET prefix == "/2.2/eeros/"
    IN  IF ~startsWith(u, prefix) THEN u ELSE substring(u, Len(prefix))

extractReservationID(u) ==
    LET marker == "/reservations/"
        index == lastIndexOf(u, marker)
    IN  IF index < 0 THEN u ELSE substring(u, index + Len(marker))

extractPortForwardID(u) ==
    LET marker == "/forwards/"
        index == lastIndexOf(u, marker)
    IN  IF index < 0 THEN u ELSE substring(u, index + Len(marker))

\* The extractor of a name.
extractor(name, u) ==
    CASE name = "extractNetworkID" -> extractNetworkID(u)
      [] name = "extractDeviceID" -> extractDeviceID(u)
      [] name = "extractProfileID" -> extractProfileID(u)
      [] name = "extractEeroID" -> extractEeroID(u)
      [] name = "extractReservationID" -> extractReservationID(u)
      [] name = "extractPortForwardID" -> extractPortForwardID(u)

(* The token label of the status view *)

\* String.prototype.slice(start, end): a negative index counts from the end.
slice(s, start, end) ==
    LET n == Len(s)
        from == IF start < 0 THEN (IF n + start < 0 THEN 0 ELSE n + start)
                ELSE (IF start > n THEN n ELSE start)
        to == IF end < 0 THEN (IF n + end < 0 THEN 0 ELSE n + end)
              ELSE (IF end > n THEN n ELSE end)
    IN  IF from >= to THEN "" ELSE SubSeq(s, from + 1, to)

\* The one character put between the two ends.
Ellipsis == "~"

\* A mask that shows the first ten characters only.
maskedTokenHead(t) ==
    IF ~Truthy(t) THEN Null ELSE slice(t, 0, 10) \o Ellipsis

\* `${token.slice(0, 10)}...${token.slice(-6)}`, null without a token.
maskedToken(t) ==
    IF ~Truthy(t) THEN Null ELSE slice(t, 0, 10) \o Ellipsis \o slice(t, -6, Len(t))

(* Display helpers *)

\* A display name that puts the hostname before the nickname.
getDeviceDisplayNameHostFirst(d) ==
    IF Truthy(d.hostname) THEN d.hostname
    ELSE IF Truthy(d.nickname) THEN d.nickname
    ELSE d.mac

getDeviceDisplayName(d) ==
    IF Truthy(d.nickname) THEN d.nickname
    ELSE IF Truthy(d.hostname) THEN d.hostname
    ELSE d.mac

\* for (const address of list) if (address.scope !== "link") return ...:
\* the first entry from index i on whose scope is not "link", 0 when none.
RECURSIVE firstNonLink(_, _)
firstNonLink(list, i) ==
    IF i > Len(list) THEN 0
    ELSE IF list[i].scope # "link" THEN i
    ELSE firstNonLink(list, i + 1)

\* A display IP that takes the first IPv6 entry whatever its scope.
getDeviceDisplayIPFirstEntry(d) ==
    IF Truthy(d.ip) THEN d.ip
    ELSE IF d.ipv6_addresses.t = "undefined" THEN "No IP"
    ELSE IF Len(d.ipv6_addresses.v) > 0 THEN splitFirst(d.ipv6_addresses.v[1].address)
    ELSE "No IP"

getDeviceDisplayIP(d) ==
    IF Truthy(d.ip) THEN d.ip
    ELSE IF d.ipv6_addresses.t = "undefined" THEN "No IP"
    ELSE LET list == d.ipv6_addresses.v
             found == firstNonLink(list, 1)
         IN  IF found > 0 THEN splitFirst(list[found].address)
             ELSE IF Len(list) > 0 THEN splitFirst(list[1].address)
             ELSE "No IP"

(* Inputs *)

\* Resource urls as the API gives them, and strings that are no such url:
\* nothing after the prefix, the prefix or marker not at the start, twice,
\* overlapping, cut short.
ResourceUrls ==
    {"", "n1", "/devices", "devices/",
     "/2.2/networks/", "/2.2/networks/n1", "x/2.2/networks/n1",
     "/2.2/networks//2.2/networks/n1",
     "/2.2/eeros/", "/2.2/eeros/e1", "https://api-user.e2ro.com/2.2/eeros/e1",
     "/2.2/eeros//2.2/eeros/e1",
     "/2.2/networks/n1/devices/d1", "/2.2/networks/n1/profiles/p1",
     "/2.2/networks/n1/reservations/r1", "/2.2/networks/n1/forwards/f1",
     "/devices/devices/", "/devices/a/devices/b", "/devices/devices/d1",
     "/profiles/profiles/", "/profiles/a/profiles/b",
     "/reservations/a/reservations/b", "/reservations/reservations/",
     "/forwards/a/forwards/b", "/forwards/forwards/"}

\* The longest ipv6_addresses list of a device.
MaxAddresses == 2

Ipv6Entries ==
    [address : {"fe80::1c2d/64", "2001:db8::7"}, scope : {"link", "global"}]

Ipv6Lists == UNION {[1..n -> Ipv6Entries] : n \in 0..MaxAddresses}

\* The fields of a Device the display helpers read; a string field may come
\* from the API as null or empty, ipv6_addresses is optional.
Devices ==
    [nickname : {Null, "", "Laptop"},
     hostname : {"", "laptop.lan"},
     mac : {"", "aa:bb:cc:dd:ee:ff"},
     ip : {Null, "", "192.168.4.20"},
     ipv6_addresses : {Undef} \cup {Arr(l) : l \in Ipv6Lists}]

(* The state machine of the helpers *)

ExtractorNames ==
    {"extractNetworkID", "extractDeviceID", "extractProfileID", "extractEeroID",
     "extractReservationID", "extractPortForwardID"}

InitHelpers ==
    /\ \/ url \in ResourceUrls /\ device = NoDevice
       \/ url = Undefined /\ device \in Devices
    /\ fn = "none"
    /\ ret = Undefined
    /\ ClientIdle
    /\ StoreIdle
    /\ ViewsIdle
    /\ ProfileIdle
    /\ ListIdle

\* A view applies an extractor to the url of an entity.
Extract(name, id) ==
    /\ url # Undefined
    /\ fn' = name
    /\ ret' = id
    /\ UNCHANGED <<url, device>>
    /\ UNCHANGED besidesHelpers

ExtractNetworkID == Extract("extractNetworkID", extractNetworkID(url))
ExtractDeviceID == Extract("extractDeviceID", extractDeviceID(url))
ExtractProfileID == Extract("extractProfileID", extractProfileID(url))
ExtractEeroID == Extract("extractEeroID", extractEeroID(url))
ExtractReservationID == Extract("extractReservationID", extractReservationID(url))
ExtractPortForwardID == Extract("extractPortForwardID", extractPortForwardID(url))

\* A view asks how to show a device.
Display(name, text) ==
    /\ device # NoDevice
    /\ fn' = name
    /\ ret' = text
    /\ UNCHANGED <<url, device>>
    /\ UNCHANGED besidesHelpers

\* A caller hands the id it got to the same extractor once more.
ExtractAgain ==
    /\ url # Undefined
    /\ fn \in ExtractorNames
    /\ url' = ret
    /\ ret' = extractor(fn, ret)
    /\ UNCHANGED <<fn, device>>
    /\ UNCHANGED besidesHelpers

\* The status view masks the token it shows.
MaskedToken ==
    /\ url # Undefined
    /\ fn' = "maskedToken"
    /\ ret' = maskedToken(url)
    /\ UNCHANGED <<url, device>>
    /\ UNCHANGED besidesHelpers

GetDeviceDisplayName == Display("getDeviceDisplayName", getDeviceDisplayName(device))
GetDeviceDisplayIP == Display("getDeviceDisplayIP", getDeviceDisplayIP(device))

NextHelpers ==
    \/ ExtractNetworkID \/ ExtractDeviceID \/ ExtractProfileID \/ ExtractEeroID
    \/ ExtractReservationID \/ ExtractPortForwardID
    \/ ExtractAgain
    \/ MaskedToken
    \/ GetDeviceDisplayName \/ GetDeviceDisplayIP

SpecHelpers == InitHelpers /\ [][NextHelpers]_vars

----------------------------------------------------------------------------
(* Vocabulary of the properties of the helpers *)

\* The text of s after its first n characters.
Rest(s, n) == SubSeq(s, n + 1, Len(s))

\* s begins with p.
HasPrefix(s, p) == \E n \in 0..Len(s) : SubSeq(s, 1, n) = p

\* The 0-based places where m stands in s.
Occurrences(s, m) ==
    {n \in 0..(Len(s) - Len(m)) : SubSeq(s, n + 1, n + Len(m)) = m}

\* A string field that is there and not empty.
Present(s) == s \notin {Null, Undefined, ""}

PrefixOf ==
    [extractNetworkID |-> "/2.2/networks/", extractEeroID |-> "/2.2/eeros/"]

MarkerOf ==
    [extractDeviceID |-> "/devices/", extractProfileID |-> "/profiles/",
     extractReservationID |-> "/reservations/", extractPortForwardID |-> "/forwards/"]

\* The device has at least one IPv6 entry.
HasIpv6(d) == d.ipv6_addresses.t = "array" /\ Len(d.ipv6_addresses.v) > 0

\* The entry the display IP is taken from: the first, in list order, whose
\* scope is not "link"; the first of all when every scope is "link".
ChosenEntry(d) ==
    LET list == d.ipv6_addresses.v
        nonLink == {i \in 1..Len(list) : list[i].scope # "link"}
    IN  IF nonLink = {} THEN list[1]
        ELSE list[CHOOSE i \in nonLink : \A j \in nonLink : i <= j]

\* The text of s in front of its first "/", all of s when it has none.
BeforeSlash(s) ==
    LET slashes == Occurrences(s, "/")
    IN  IF slashes = {} THEN s
        ELSE SubSeq(s, 1, CHOOSE i \in slashes : \A j \in slashes : i <= j)

----------------------------------------------------------------------------
(* C11 *)

\* C11: extractNetworkID and extractEeroID return, for a url that starts with
\* their prefix, exactly the rest of the url after the prefix, and any other
\* url unchanged; they return a string for every string.
C11_PrefixExtractors ==
    /\ \A f \in DOMAIN PrefixOf :
         fn = f =>
            /\ HasPrefix(url, PrefixOf[f]) => PrefixOf[f] \o ret = url
            /\ ~HasPrefix(url, PrefixOf[f]) => ret = url
            /\ ret \in STRING
    /\ url # Undefined => ENABLED ExtractNetworkID /\ ENABLED ExtractEeroID

\* extractNetworkID took the prefix off a url that holds it twice: once, at
\* the start.
C11_Witness ==
    /\ fn = "extractNetworkID"
    /\ url = "/2.2/networks//2.2/networks/n1"
    /\ ret = "/2.2/networks/n1"

----------------------------------------------------------------------------
(* C12 *)

\* C12: extractDeviceID, extractProfileID, extractReservationID and
\* extractPortForwardID return, for a url that contains their marker, exactly
\* the part after the marker's last occurrence, a text without the marker;
\* a url without the marker they return unchanged.
C12_MarkerExtractors ==
    \A f \in DOMAIN MarkerOf :
        fn = f =>
            LET m == MarkerOf[f]
                occ == Occurrences(url, m)
            IN  /\ occ # {} =>
                     /\ \E i \in occ :
                           /\ \A j \in occ : j <= i
                           /\ ret = Rest(url, i + Len(m))
                     /\ Occurrences(ret, m) = {}
                /\ occ = {} => ret = url

\* extractDeviceID was given a url with the marker twice and cut at the last.
C12_Witness ==
    /\ fn = "extractDeviceID"
    /\ url = "/devices/a/devices/b"
    /\ ret = "b"

----------------------------------------------------------------------------
(* C13 *)

\* C13: getDeviceDisplayName returns the nickname when it is non-empty,
\* otherwise the hostname when it is non-empty, otherwise the MAC address;
\* for a device with a non-empty MAC address the result is non-empty.
C13_DisplayName ==
    fn = "getDeviceDisplayName" =>
        /\ ret = IF Present(device.nickname) THEN device.nickname
                 ELSE IF Present(device.hostname) THEN device.hostname
                 ELSE device.mac
        /\ Present(device.mac) => Present(ret)

\* A device without nickname is shown under its hostname.
C13_Witness ==
    /\ fn = "getDeviceDisplayName"
    /\ device.nickname = ""
    /\ device.hostname = "laptop.lan"
    /\ device.mac = "aa:bb:cc:dd:ee:ff"
    /\ ret = "laptop.lan"

----------------------------------------------------------------------------
(* C14 *)

\* C14: getDeviceDisplayIP returns the IPv4 field when it is non-empty;
\* otherwise, of the first IPv6 entry whose scope is not "link", or else of
\* the first IPv6 entry, the address up to its first "/"; otherwise "No IP".
C14_DisplayIP ==
    fn = "getDeviceDisplayIP" =>
        ret = IF Present(device.ip) THEN device.ip
              ELSE IF HasIpv6(device) THEN BeforeSlash(ChosenEntry(device).address)
              ELSE "No IP"

\* C14 as the claim states it: the returned text is the chosen entry's
\* address field.
C14_AsStated ==
    fn = "getDeviceDisplayIP" =>
        ret = IF Present(device.ip) THEN device.ip
              ELSE IF HasIpv6(device) THEN ChosenEntry(device).address
              ELSE "No IP"

\* A device without IPv4 whose second IPv6 entry is the first that is not
\* link-local and carries a prefix length: it is shown without the length.
C14_Witness ==
    /\ fn = "getDeviceDisplayIP"
    /\ device.ip = ""
    /\ device.ipv6_addresses =
          Arr(<<[address |-> "2001:db8::7", scope |-> "link"],
                [address |-> "fe80::1c2d/64", scope |-> "global"]>>)
    /\ ret = "fe80::1c2d"

----------------------------------------------------------------------------
(***************************************************************************)
(* The config file (src/src/utils.ts): saveConfig writes the config as     *)
(* JSON text, getConfig reads the text and parses it.  SpecStore is the    *)
(* file under every order of saves, failed saves and reads.                *)
(***************************************************************************)

(* JSON text of an EeroConfig *)

\* The character of s at the 1-based place i, "" past its end.
charAt(s, i) == IF i >= 1 /\ i <= Len(s) THEN SubSeq(s, i, i) ELSE ""

\* A string member written without escaping its characters.
quoteRaw(s) == "\"" \o s \o "\""

\* JSON.stringify of a string: quotes around it, a backslash in front of
\* each quote and backslash in it.
RECURSIVE escapeFrom(_, _)
escapeFrom(s, i) ==
    IF i > Len(s) THEN ""
    ELSE LET c == charAt(s, i)
         IN  (IF c = "\"" THEN "\\\"" ELSE IF c = "\\" THEN "\\\\" ELSE c)
                 \o escapeFrom(s, i + 1)

quote(s) == "\"" \o escapeFrom(s, 1) \o "\""

\* A stringify that writes the strings as they are, without escaping.
stringifyRaw(config) ==
    LET member(k) == "  " \o quoteRaw(k) \o ": " \o quoteRaw(config[k])
        hasToken == config.token # Undefined
        hasNetwork == config.network_id # Undefined
    IN  IF ~hasToken /\ ~hasNetwork THEN "{}"
        ELSE "{\n"
             \o (IF hasToken THEN member("token") ELSE "")
             \o (IF hasToken /\ hasNetwork THEN ",\n" ELSE "")
             \o (IF hasNetwork THEN member("network_id") ELSE "")
             \o "\n}"

\* JSON.stringify(config, null, 2): the members that are not undefined, in
\* the order of the object, one per line, indented by two spaces.
stringify(config) ==
    LET member(k) == "  " \o quote(k) \o ": " \o quote(config[k])
        hasToken == config.token # Undefined
        hasNetwork == config.network_id # Undefined
    IN  IF ~hasToken /\ ~hasNetwork THEN "{}"
        ELSE "{\n"
             \o (IF hasToken THEN member("token") ELSE "")
             \o (IF hasToken /\ hasNetwork THEN ",\n" ELSE "")
             \o (IF hasNetwork THEN member("network_id") ELSE "")
             \o "\n}"

\* JSON.parse: the place of the first character from i on that is not
\* white space.
RECURSIVE skipSpace(_, _)
skipSpace(s, i) ==
    IF charAt(s, i) \in {" ", "\n"} THEN skipSpace(s, i + 1) ELSE i

SyntaxError == [ok |-> FALSE, value |-> "", next |-> 0]

\* The characters of a string literal from place i up to its closing quote.
RECURSIVE readChars(_, _, _)
readChars(s, i, read) ==
    LET c == charAt(s, i)
    IN  IF c = "" THEN SyntaxError
        ELSE IF c = "\"" THEN [ok |-> TRUE, value |-> read, next |-> i + 1]
        ELSE IF c = "\\"
             THEN IF charAt(s, i + 1) \in {"\"", "\\"}
                  THEN readChars(s, i + 2, read \o charAt(s, i + 1))
                  ELSE SyntaxError
        ELSE readChars(s, i + 1, read \o c)

\* A string literal at place i.
readString(s, i) ==
    IF charAt(s, i) = "\"" THEN readChars(s, i + 1, "") ELSE SyntaxError

NotJson == [ok |-> FALSE, value |-> EmptyConfig]

\* After the closing brace only white space may follow.
readEnd(s, i, object) ==
    IF skipSpace(s, i) > Len(s) THEN [ok |-> TRUE, value |-> object] ELSE NotJson

\* The members of an object from place i on: "key": "value", ...
RECURSIVE readMembers(_, _, _)
readMembers(s, i, object) ==
    LET key == readString(s, i)
        colon == skipSpace(s, key.next)
        value == readString(s, skipSpace(s, colon + 1))
        after == skipSpace(s, value.next)
        with == IF key.value \in DOMAIN object
                THEN [object EXCEPT ![key.value] = value.value]
                ELSE object
    IN  IF ~key.ok \/ charAt(s, colon) # ":" THEN NotJson
        ELSE IF ~value.ok THEN NotJson
        ELSE IF charAt(s, after) = "," THEN readMembers(s, skipSpace(s, after + 1), with)
        ELSE IF charAt(s, after) = "}" THEN readEnd(s, after + 1, with)
        ELSE NotJson

\* JSON.parse(content) of an object of string members: the object, or the
\* SyntaxError it throws.
parse(content) ==
    LET open == skipSpace(content, 1)
        first == skipSpace(content, open + 1)
    IN  IF charAt(content, open) # "{" THEN NotJson
        ELSE IF charAt(content, first) = "}" THEN readEnd(content, first + 1, EmptyConfig)
        ELSE readMembers(content, first, EmptyConfig)

(* getConfig, saveConfig *)

\* await writeFile(configPath, text, {mode: 0o600}) when it completes: the
\* file holds the whole text.
written(text) == [exists |-> TRUE, text |-> text, whole |-> TRUE]

\* writeFile when it rejects: the file was opened, which empties it, and
\* holds the first n characters of the text.
cutShort(text, n) == [exists |-> TRUE, text |-> SubSeq(text, 1, n), whole |-> FALSE]

\* saveConfig(config) that completes.
saveConfig(config) == written(stringify(config))

\* getConfig(): the parsed content of the file; {} when readFile rejects
\* (no file, or readable is false: no permission, an I/O error) and when
\* JSON.parse throws.
getConfig(f, readable) ==
    IF ~f.exists \/ ~readable
    THEN [kind |-> "return", value |-> EmptyConfig, read |-> FALSE]
    ELSE LET parsed == parse(f.text)
         IN  [kind |-> "return",
              value |-> IF parsed.ok THEN parsed.value ELSE EmptyConfig,
              read |-> TRUE]

(* Inputs *)

\* The configs handed to saveConfig: each member a string, empty or not, with
\* characters that JSON escapes, or left out.
Configs ==
    [token : {Undefined, "", "q\"t\\9"},
     network_id : {Undefined, "n1"}]

\* How many characters from the start of the text, or short of its end, a
\* failing writeFile may stop at.
MaxCut == 1

\* The lengths a text can be cut short to.
Cuts(text) ==
    {n \in 0..(Len(text) - 1) : n <= MaxCut \/ n >= Len(text) - 1 - MaxCut}

(* The state machine of the config file *)

\* The file does not exist, or an earlier run of the extension saved it.
InitStore ==
    /\ \/ file = NoFile /\ lastSaved = NoSave
       \/ \E config \in Configs :
             /\ file = saveConfig(config)
             /\ lastSaved = [saved |-> TRUE, config |-> config]
    /\ got = NotRead
    /\ ClientIdle
    /\ HelpersIdle
    /\ ViewsIdle
    /\ ProfileIdle
    /\ ListIdle

SaveConfig ==
    \E config \in Configs :
        /\ file' = saveConfig(config)
        /\ lastSaved' = [saved |-> TRUE, config |-> config]
        /\ UNCHANGED got
        /\ UNCHANGED besidesStore

\* saveConfig rejects: mkdir rejected and the file is as it was, or
\* writeFile rejected part of the way.
SaveConfigFails ==
    \E config \in Configs :
        /\ \/ file' = file
           \/ \E n \in Cuts(stringify(config)) :
                 file' = cutShort(stringify(config), n)
        /\ UNCHANGED <<lastSaved, got>>
        /\ UNCHANGED besidesStore

GetConfig ==
    /\ \E readable \in BOOLEAN : got' = getConfig(file, readable)
    /\ UNCHANGED <<file, lastSaved>>
    /\ UNCHANGED besidesStore

NextStore == SaveConfig \/ SaveConfigFails \/ GetConfig

SpecStore == InitStore /\ [][NextStore]_vars

----------------------------------------------------------------------------
(* C15 *)

\* C15: getConfig never fails; when the file was read and holds all of what
\* the most recent completed saveConfig wrote, getConfig returns the config
\* given to that saveConfig; when there is no file, the file cannot be read
\* or its text was cut short, getConfig returns the empty object.
C15_GetConfigReturnsLastSaved ==
    [][got' # got =>
          /\ got'.kind = "return"
          /\ got'.value = IF got'.read /\ file'.whole THEN lastSaved'.config
                          ELSE EmptyConfig]_vars

\* getConfig gave back a saved config whose token holds a quote and a
\* backslash.
C15_Witness ==
    /\ got.kind = "return"
    /\ got.read
    /\ file.whole
    /\ lastSaved.config = [token |-> "q\"t\\9", network_id |-> "n1"]
    /\ got.value = lastSaved.config

----------------------------------------------------------------------------
(***************************************************************************)
(* The views: each command of the extension shows a collection it loads    *)
(* through the client, and its handlers change the network, the config     *)
(* file or the session.  A handler invocation is a task: it waits for the  *)
(* confirmation dialog ("confirm"), for getConfig ("config"), for its      *)
(* requests ("awaiting"), and other tasks run while it waits.  SpecViews   *)
(* is every interleaving of up to MaxTasks invocations with the answers of *)
(* the network.                                                            *)
(***************************************************************************)

(* The handlers *)

Both == {"token", "network_id"}

\* A load function: getConfig, the guard, the reads, the collection set.
\* unauth is what the guard does: "error" (setError), "toast", "silent".
Load(name, command, unauth, calls) ==
    [name |-> name, command |-> command, kind |-> "load", needs |-> Both,
     requires |-> "none", unauth |-> unauth, calls |-> calls, confirm |-> FALSE,
     reloads |-> <<>>, pop |-> FALSE]

\* A mutation handler: the confirmation dialog if it has one, getConfig, the
\* guard, one call, the success toast, the load functions it calls, popToRoot.
Mutation(name, command, needs, requires, unauth, op, confirm, reloads, pop) ==
    [name |-> name, command |-> command, kind |-> "mutation", needs |-> needs,
     requires |-> requires, unauth |-> unauth, calls |-> <<op>>, confirm |-> confirm,
     reloads |-> reloads, pop |-> pop]

Handlers ==
    { Load("Devices.loadDevices", "devices", "error", <<"getDevices">>),
      Load("Profiles.loadProfiles", "profiles", "error", <<"getProfiles">>),
      Load("ProfileDetail.loadDetails", "profiles", "silent",
           <<"getProfileDetails", "getDevices">>),
      Load("Eeros.loadEeros", "eeros", "error", <<"getEeros">>),
      Load("Guest.loadGuestNetwork", "guest", "toast", <<"getGuestNetwork">>),
      Load("Reservations.loadReservations", "reservations", "error", <<"getReservations">>),
      Load("PortForwarding.loadForwards", "forwards", "error", <<"getPortForwards">>),
      Mutation("Devices.handlePause", "devices", Both, "none", "silent", "pauseDevice",
               FALSE, <<"Devices.loadDevices">>, FALSE),
      Mutation("Devices.handleBlock", "devices", Both, "none", "silent", "blockDevice",
               FALSE, <<"Devices.loadDevices">>, FALSE),
      Mutation("RenameDevice.handleSubmit", "devices", Both, "none", "silent", "renameDevice",
               FALSE, <<"Devices.loadDevices">>, TRUE),
      Mutation("DeviceDetail.handlePause", "devices", Both, "none", "silent", "pauseDevice",
               FALSE, <<"Devices.loadDevices">>, FALSE),
      Mutation("DeviceDetail.handleBlock", "devices", Both, "none", "silent", "blockDevice",
               FALSE, <<"Devices.loadDevices">>, FALSE),
      Mutation("Profiles.handlePause", "profiles", Both, "none", "silent", "pauseProfile",
               FALSE, <<"Profiles.loadProfiles">>, FALSE),
      Mutation("ProfileDetail.handlePause", "profiles", Both, "none", "silent", "pauseProfile",
               FALSE, <<"Profiles.loadProfiles", "ProfileDetail.loadDetails">>, FALSE),
      Mutation("ProfileDetail.handleRemoveDevice", "profiles", Both, "details", "silent",
               "setProfileDevices", FALSE, <<"ProfileDetail.loadDetails">>, FALSE),
      Mutation("ProfileDetail.handleAddDevice", "profiles", Both, "details", "silent",
               "setProfileDevices", FALSE, <<"ProfileDetail.loadDetails">>, FALSE),
      Mutation("Eeros.handleReboot", "eeros", {"token"}, "none", "silent", "rebootEero",
               TRUE, <<"Eeros.loadEeros">>, FALSE),
      Mutation("EeroDetail.handleReboot", "eeros", {"token"}, "none", "silent", "rebootEero",
               TRUE, <<"Eeros.loadEeros">>, FALSE),
      Mutation("Guest.handleToggle", "guest", Both, "collection", "silent",
               "enableGuestNetwork", FALSE, <<"Guest.loadGuestNetwork">>, FALSE),
      Mutation("Guest.handlePasswordChange", "guest", Both, "none", "silent",
               "setGuestNetworkPassword", FALSE, <<"Guest.loadGuestNetwork">>, FALSE),
      Mutation("Reservations.handleDelete", "reservations", Both, "none", "silent",
               "deleteReservation", TRUE, <<"Reservations.loadReservations">>, FALSE),
      Mutation("AddReservation.handleSubmit", "reservations", Both, "none", "silent",
               "createReservation", FALSE, <<"Reservations.loadReservations">>, TRUE),
      Mutation("PortForwarding.handleToggle", "forwards", Both, "none", "silent",
               "updatePortForward", FALSE, <<"PortForwarding.loadForwards">>, FALSE),
      Mutation("PortForwarding.handleDelete", "forwards", Both, "none", "silent",
               "deletePortForward", TRUE, <<"PortForwarding.loadForwards">>, FALSE),
      Mutation("AddPortForward.handleSubmit", "forwards", Both, "none", "silent",
               "createPortForward", FALSE, <<"PortForwarding.loadForwards">>, TRUE),
      Mutation("Reboot.handleReboot", "reboot", Both, "none", "toast", "rebootNetwork",
               TRUE, <<>>, TRUE),
      \* Status: getAuthStatus reads the config and, with a token, the account.
      [name |-> "Status.checkStatus", command |-> "status", kind |-> "status",
       needs |-> {"token"}, requires |-> "none", unauth |-> "status",
       calls |-> <<"getAccount">>, confirm |-> FALSE, reloads |-> <<>>, pop |-> FALSE],
      \* Status: logout() writes the config, then getAuthStatus runs again.
      [name |-> "Status.handleLogout", command |-> "status", kind |-> "logout",
       needs |-> {}, requires |-> "none", unauth |-> "silent",
       calls |-> <<>>, confirm |-> FALSE, reloads |-> <<"Status.checkStatus">>, pop |-> FALSE],
      \* Login: new EeroAPI() without a token, no config is read.
      [name |-> "Login.handleRequestCode", command |-> "login", kind |-> "requestCode",
       needs |-> {}, requires |-> "none", unauth |-> "silent",
       calls |-> <<"login">>, confirm |-> FALSE, reloads |-> <<>>, pop |-> FALSE],
      [name |-> "Login.handleVerify", command |-> "login", kind |-> "verify",
       needs |-> {}, requires |-> "none", unauth |-> "silent",
       calls |-> <<"loginVerify", "getAccount">>, confirm |-> FALSE, reloads |-> <<>>,
       pop |-> TRUE] }

HandlerNames == {h.name : h \in Handlers}

HandlerTable == [name \in HandlerNames |-> CHOOSE h \in Handlers : h.name = name]

Handler(name) == HandlerTable[name]

Commands == {h.command : h \in Handlers}

\* useEffect(() => { load(); }, []): what a command starts when it opens.
OnMount(command) ==
    CASE command = "devices" -> <<"Devices.loadDevices">>
      [] command = "profiles" -> <<"Profiles.loadProfiles">>
      [] command = "eeros" -> <<"Eeros.loadEeros">>
      [] command = "guest" -> <<"Guest.loadGuestNetwork">>
      [] command = "reservations" -> <<"Reservations.loadReservations">>
      [] command = "forwards" -> <<"PortForwarding.loadForwards">>
      [] command = "status" -> <<"Status.checkStatus">>
      [] OTHER -> <<>>

(* What the handlers call *)

\* isAuthenticated(): !!config.token
isAuthenticated(config) == Truthy(config.token)

\* if (!config.token || !config.network_id [|| !details]) return;
\* A guard that looks at the token only.
authenticatedByToken(handler, config) == Truthy(config.token)

authenticated(handler, config) == \A member \in handler.needs : Truthy(config[member])

\* if (!guestNetwork) return;  ... || !details
missing(handler, sh) ==
    \/ handler.requires = "details" /\ sh.details = NoData
    \/ handler.requires = "collection" /\ sh.collection = NoData

\* A logout that clears the network id and leaves the token.
LoggedOutKeepsToken == [token |-> "abc123", network_id |-> ""]

\* logout(): saveConfig({ token: "", network_id: "" })
LoggedOutConfig == [token |-> "", network_id |-> ""]

\* Login.handleVerify: { token: userToken } and, when the account has a
\* network, network_id: extractNetworkID(network.url).
\* A config that keeps the token stored before.
LoginConfigOtherToken(userToken, networkUrl) ==
    [token |-> "abc123",
     network_id |-> IF networkUrl = Undefined THEN Undefined
                    ELSE extractNetworkID(networkUrl)]

\* Login.handleVerify: { token: userToken }, and network_id from the url of
\* the account's first network when it has one.
LoginConfig(userToken, networkUrl) ==
    [token |-> userToken,
     network_id |-> IF networkUrl = Undefined THEN Undefined
                    ELSE extractNetworkID(networkUrl)]

UpperCase == "ABCDEFGHIJKLMNOPQRSTUVWXYZ"
LowerCase == "abcdefghijklmnopqrstuvwxyz"

\* String.prototype.toLowerCase
RECURSIVE toLowerCaseFrom(_, _)
toLowerCaseFrom(s, i) ==
    IF i > Len(s) THEN ""
    ELSE LET c == charAt(s, i)
             at == indexOf(UpperCase, c)
         IN  (IF at >= 0 THEN charAt(LowerCase, at + 1) ELSE c) \o toLowerCaseFrom(s, i + 1)

toLowerCase(s) == toLowerCaseFrom(s, 1)

\* String.prototype.includes
includes(s, part) == indexOf(s, part) >= 0

BlockedText ==
    "Your account has been temporarily blocked due to too many login attempts. Please wait 10-15 minutes and try again."
InvalidText ==
    "Invalid email, phone number, or verification code. Please check and try again."
ExpiredText == "Verification code expired. Please request a new code."

\* Login.getErrorMessage(error)
getErrorMessage(error) ==
    IF error.name = "EeroAPIError"
    THEN LET message == toLowerCase(error.message)
         IN  IF includes(message, "login.blocked") \/ includes(message, "blocked")
             THEN BlockedText
             ELSE IF includes(message, "invalid") \/ includes(message, "incorrect")
             THEN InvalidText
             ELSE IF includes(message, "expired") THEN ExpiredText
             ELSE error.message
    ELSE IF Truthy(error.message) THEN error.message
    ELSE "An unexpected error occurred"

\* A failure toast that names no cause.
failureMessageNone(handler, error) == ""

\* The message a handler puts in its failure toast: error.message, in the
\* login form getErrorMessage(error).
failureMessage(handler, error) ==
    IF handler.command = "login" THEN getErrorMessage(error) ELSE error.message

(* What the network answers *)

\* The errors an operation of the client throws: an EeroAPIError with the
\* server's meta.error or the status text, and the TypeError of a null body.
ApiFailures ==
    {EeroAPIError("API error (status 500)", 500),
     EeroAPIError("Invalid verification code", 401),
     NullDataError}

ReadOperations ==
    {"getDevices", "getProfiles", "getProfileDetails", "getEeros", "getGuestNetwork",
     "getReservations", "getPortForwards"}

\* What an operation returns: a read its data, login the user_token,
\* getAccount (here) the url of the account's first network, Undefined when
\* it has none, the others nothing.
Returns(op) ==
    IF op \in ReadOperations THEN Payloads
    ELSE IF op = "login" THEN {"tok456"}
    ELSE IF op = "getAccount" THEN {Undefined, "/2.2/networks/n1"}
    ELSE {Undefined}

Resolved(value) == [ok |-> TRUE, value |-> value, error |-> NoError]
Rejects(error) == [ok |-> FALSE, value |-> Undefined, error |-> error]

Answers(op) == {Resolved(v) : v \in Returns(op)} \cup {Rejects(e) : e \in ApiFailures}

(* The state machine of the views *)

Toast(style, message) == [style |-> style, message |-> message]

\* A step that handles no answer of the network.
Event(did, name, op, error, issued, toast) ==
    [did |-> did, handler |-> name, op |-> op, value |-> Undefined, error |-> error,
     issued |-> issued, toast |-> toast]

\* A step that handles the answer to a request.
Handled(did, name, op, answer, issued, toast) ==
    [did |-> did, handler |-> name, op |-> op, value |-> answer.value,
     error |-> answer.error, issued |-> issued, toast |-> toast]

\* A handler invocation at its first await.
Task(name, after, mounted, userToken) ==
    [handler |-> name,
     pc |-> IF Handler(name).confirm THEN "confirm" ELSE "config",
     reqs |-> <<>>, after |-> after, mounted |-> mounted, userToken |-> userToken]

Request(op) == [op |-> op, state |-> "out", value |-> Undefined]

\* The slots a task holds or will need: one, or one for each load function
\* a mutation handler calls when it succeeds.
Reserved(task) ==
    IF task = Free THEN 0
    ELSE IF Len(Handler(task.handler).reloads) > 1 THEN Len(Handler(task.handler).reloads)
    ELSE 1

RECURSIVE SumReserved(_, _)
SumReserved(ts, slot) ==
    IF slot > MaxTasks THEN 0 ELSE Reserved(ts[slot]) + SumReserved(ts, slot + 1)

FreeSlots(ts) == {slot \in 1..MaxTasks : ts[slot] = Free}

FirstFree(ts) == CHOOSE slot \in FreeSlots(ts) : \A other \in FreeSlots(ts) : slot <= other

\* There is room for one more invocation of the handler.
Room(name) ==
    SumReserved(tasks, 1) + Reserved(Task(name, "user", TRUE, "")) <= MaxTasks

InitViews ==
    /\ view = "root"
    /\ shown = NoShown
    /\ tasks = [slot \in 1..MaxTasks |-> Free]
    /\ event = NoEvent
    /\ session = "fresh"
    /\ \/ file = NoFile /\ lastSaved = NoSave
       \/ \E config \in {LoginConfig("abc123", "/2.2/networks/n1"),
                         LoginConfig("abc123", Undefined)} :
             /\ file = saveConfig(config)
             /\ lastSaved = [saved |-> TRUE, config |-> config]
    /\ got = NotRead
    /\ ClientIdle
    /\ HelpersIdle
    /\ ProfileIdle
    /\ ListIdle

\* The user opens a command from the root, once the handlers of the command
\* before have finished: a fresh view, whose mount effect starts its load.
Open ==
    /\ view = "root"
    /\ \A slot \in 1..MaxTasks : tasks[slot] = Free
    /\ \E command \in Commands :
          /\ view' = command
          /\ shown' = NoShown
          /\ IF OnMount(command) = <<>>
             THEN tasks' = tasks /\ event' = Event("opened", "none", "none", NoError, <<>>, NoToast)
             ELSE /\ Room(OnMount(command)[1])
                  /\ tasks' = [tasks EXCEPT ![FirstFree(tasks)] =
                                   Task(OnMount(command)[1], "mount", TRUE, "")]
                  /\ event' = Event("opened", OnMount(command)[1], "none", NoError, <<>>, NoToast)
    /\ UNCHANGED <<session, file, lastSaved>>
    /\ UNCHANGED besidesViews

\* The view goes away (the user leaves, or a handler called popToRoot): the
\* handlers in flight go on, what they set is no longer displayed.
unmounted(ts) == [slot \in 1..MaxTasks |-> [ts[slot] EXCEPT !.mounted = FALSE]]

Close ==
    /\ view # "root"
    /\ view' = "root"
    /\ shown' = NoShown
    /\ tasks' = unmounted(tasks)
    /\ event' = Event("closed", "none", "none", NoError, <<>>, NoToast)
    /\ UNCHANGED <<session, file, lastSaved>>
    /\ UNCHANGED besidesViews

\* The handlers the view on screen lets the user trigger. The status view
\* has the Logout action when it reads authenticated and no action that
\* checks the status again; the login form verifies once a code was
\* requested.
offered(name, sh) ==
    /\ Handler(name).kind # "status"
    /\ Handler(name).kind = "logout" =>
          sh.authStatus \in {"authenticated", "authenticated, network named"}
    /\ Handler(name).kind = "verify" => sh.userToken # ""

\* The user triggers a handler of the command on screen (a refresh, an
\* action of an item, a form that passes its validation).
Do ==
    /\ \E name \in HandlerNames :
          /\ Handler(name).command = view
          /\ offered(name, shown)
          /\ Room(name)
          /\ tasks' = [tasks EXCEPT ![FirstFree(tasks)] =
                           Task(name, "user", TRUE, shown.userToken)]
          /\ event' = Event("started", name, "none", NoError, <<>>, NoToast)
    /\ UNCHANGED <<view, shown, session, file, lastSaved>>
    /\ UNCHANGED besidesViews

\* A handler that goes on whatever the dialog returned.
afterDialogAnyway(task, confirmed) == [task EXCEPT !.pc = "config"]

\* if (!confirmed) return;
afterDialog(task, confirmed) ==
    IF confirmed THEN [task EXCEPT !.pc = "config"] ELSE Free

\* The user answers the confirmation dialog.
Answer ==
    /\ \E slot \in 1..MaxTasks, confirmed \in BOOLEAN :
          /\ tasks[slot].pc = "confirm"
          /\ tasks' = [tasks EXCEPT ![slot] = afterDialog(tasks[slot], confirmed)]
          /\ event' = Event(IF confirmed THEN "confirmed" ELSE "declined",
                            tasks[slot].handler, "none", NoError, <<>>, NoToast)
    /\ UNCHANGED <<view, shown, session, file, lastSaved>>
    /\ UNCHANGED besidesViews

\* What is left of the file when saveConfig rejects: mkdir rejected and the
\* file is as it was, or writeFile rejected having emptied it.
Damaged(old, text) == {old, cutShort(text, 0)}

\* What writeFile and mkdir reject with.
FileError == Error("Error", "EACCES: permission denied, open 'config.json'", NoStatus)

\* getConfig returned: the guard, then the handler's requests go out, all of
\* them before any answer is awaited.
Begin ==
    /\ \E slot \in 1..MaxTasks, readable \in BOOLEAN :
          LET task == tasks[slot]
              handler == Handler(task.handler)
              config == getConfig(file, readable).value
          IN  /\ task.pc = "config"
              /\ handler.kind \in {"load", "mutation", "status"}
              /\ IF authenticated(handler, config) /\ ~missing(handler, shown)
                 THEN /\ tasks' = [tasks EXCEPT ![slot] =
                                      [@ EXCEPT !.pc = "awaiting",
                                                !.reqs = [i \in 1..Len(handler.calls) |->
                                                             Request(handler.calls[i])]]]
                      /\ event' = Event("issued", handler.name, "none", NoError, handler.calls, NoToast)
                      /\ shown' = shown
                 ELSE /\ tasks' = [tasks EXCEPT ![slot] = Free]
                      /\ event' = Event(IF authenticated(handler, config) THEN "returned"
                                        ELSE "unauthenticated",
                                        handler.name, "none", NoError, <<>>,
                                        IF handler.unauth = "toast" /\ ~authenticated(handler, config)
                                        THEN Toast("failure", "Please login first")
                                        ELSE NoToast)
                      /\ shown' = IF handler.unauth = "status" /\ task.mounted
                                  THEN [shown EXCEPT !.authStatus = "not authenticated"]
                                  ELSE shown
    /\ UNCHANGED <<view, session, file, lastSaved>>
    /\ UNCHANGED besidesViews

\* Status.handleLogout: await logout(); the success toast; getAuthStatus().
\* When saveConfig rejects: the failure toast.
Logout ==
    /\ \E slot \in 1..MaxTasks :
          LET task == tasks[slot]
              text == stringify(LoggedOutConfig)
          IN  /\ task.pc = "config"
              /\ Handler(task.handler).kind = "logout"
              /\ \/ /\ file' = saveConfig(LoggedOutConfig)
                    /\ lastSaved' = [saved |-> TRUE, config |-> LoggedOutConfig]
                    /\ session' = "loggedOut"
                    /\ tasks' = [tasks EXCEPT ![slot] =
                                    Task("Status.checkStatus", task.handler, task.mounted, "")]
                    /\ event' = Event("saved", task.handler, "none", NoError, <<>>,
                                      Toast("success", ""))
                 \/ /\ file' \in Damaged(file, text)
                    /\ UNCHANGED <<lastSaved, session>>
                    /\ tasks' = [tasks EXCEPT ![slot] = Free]
                    /\ event' = Event("not saved", task.handler, "none", FileError, <<>>,
                                      Toast("failure", FileError.message))
    /\ UNCHANGED <<view, shown>>
    /\ UNCHANGED besidesViews

\* Login.handleRequestCode, Login.handleVerify: new EeroAPI() and the first
\* call; no config is read.
BeginLogin ==
    /\ \E slot \in 1..MaxTasks :
          LET task == tasks[slot]
              handler == Handler(task.handler)
          IN  /\ task.pc = "config"
              /\ handler.kind \in {"requestCode", "verify"}
              /\ tasks' = [tasks EXCEPT ![slot] =
                              [@ EXCEPT !.pc = "awaiting", !.reqs = <<Request(handler.calls[1])>>]]
              /\ event' = Event("issued", handler.name, "none", NoError, <<handler.calls[1]>>, NoToast)
    /\ UNCHANGED <<view, shown, session, file, lastSaved>>
    /\ UNCHANGED besidesViews

\* The requests of a task with the answer to the i-th filled in.
answered(task, i, answer) ==
    [task.reqs EXCEPT ![i] = [@ EXCEPT !.state = IF answer.ok THEN "ok" ELSE "failed",
                                       !.value = answer.value]]

outstanding(reqs) == \E j \in 1..Len(reqs) : reqs[j].state = "out"

\* A Promise.all that resolves with the first read that does.
anyResolved(reqs) == \E j \in 1..Len(reqs) : reqs[j].state = "ok"

\* await Promise.all([...]) resolves: every read has.
allResolved(reqs) == \A j \in 1..Len(reqs) : reqs[j].state = "ok"

\* setDevices(list) and the like; in the profile detail setDetails,
\* setAllDevices and setDevices(allDevices filtered by the profile's urls),
\* each from its place in the array Promise.all resolves with.
display(sh, reqs) ==
    IF Len(reqs) = 1 THEN [sh EXCEPT !.collection = reqs[1].value]
    ELSE [sh EXCEPT !.details = reqs[1].value,
                    !.allDevices = reqs[2].value,
                    !.devices = [of |-> reqs[1].value, from |-> reqs[2].value]]

\* An answer reaches a load function: the collection is set when every read
\* has resolved; the first read that rejects goes to the catch.
ReplyLoad ==
    /\ \E slot \in 1..MaxTasks :
          LET task == tasks[slot]
              handler == Handler(task.handler)
          IN  /\ task.pc = "awaiting"
              /\ handler.kind = "load"
              /\ \E i \in 1..Len(task.reqs) :
                    /\ task.reqs[i].state = "out"
                    /\ \E answer \in Answers(task.reqs[i].op) :
                          LET reqs == answered(task, i, answer)
                          IN  IF ~answer.ok
                              THEN /\ tasks' = [tasks EXCEPT ![slot] =
                                                   IF outstanding(reqs)
                                                   THEN [task EXCEPT !.pc = "settled", !.reqs = reqs]
                                                   ELSE Free]
                                   /\ event' = Handled("failed", handler.name, task.reqs[i].op,
                                                       answer, <<>>,
                                                       Toast("failure",
                                                             failureMessage(handler, answer.error)))
                                   /\ shown' = shown
                              ELSE IF allResolved(reqs)
                              THEN /\ tasks' = [tasks EXCEPT ![slot] =
                                                   IF outstanding(reqs)
                                                   THEN [task EXCEPT !.pc = "settled", !.reqs = reqs]
                                                   ELSE Free]
                                   /\ event' = Handled("loaded", handler.name, task.reqs[i].op,
                                                       answer, <<>>, NoToast)
                                   /\ shown' = IF task.mounted THEN display(shown, reqs) ELSE shown
                              ELSE /\ tasks' = [tasks EXCEPT ![slot] = [task EXCEPT !.reqs = reqs]]
                                   /\ event' = Handled("waiting", handler.name, task.reqs[i].op,
                                                       answer, <<>>, NoToast)
                                   /\ shown' = shown
    /\ UNCHANGED <<view, session, file, lastSaved>>
    /\ UNCHANGED besidesViews

\* An answer reaches a Promise.all that has already rejected: nobody waits
\* for it.
ReplyIgnored ==
    /\ \E slot \in 1..MaxTasks :
          LET task == tasks[slot]
          IN  /\ task.pc = "settled"
              /\ \E i \in 1..Len(task.reqs) :
                    /\ task.reqs[i].state = "out"
                    /\ \E answer \in Answers(task.reqs[i].op) :
                          LET reqs == answered(task, i, answer)
                          IN  /\ tasks' = [tasks EXCEPT ![slot] =
                                              IF outstanding(reqs) THEN [task EXCEPT !.reqs = reqs]
                                              ELSE Free]
                              /\ event' = Handled(IF answer.ok THEN "ignored" ELSE "failed late",
                                                  task.handler, task.reqs[i].op, answer, <<>>, NoToast)
    /\ UNCHANGED <<view, shown, session, file, lastSaved>>
    /\ UNCHANGED besidesViews

\* A handler that changes the displayed collection itself when its call
\* has succeeded.
afterMutationOptimistic(sh) == [sh EXCEPT !.collection = "D2"]

\* What a mutation handler sets of the view when its call has succeeded:
\* nothing.
afterMutation(sh) == sh

\* A handler that calls its load functions whatever the answer.
reloadsAlways(handler, answer) == handler.reloads

\* The load functions a mutation handler calls once its call has returned:
\* they stand after the await, inside the try.
reloadsAfter(handler, answer) == IF answer.ok THEN handler.reloads ELSE <<>>

\* loadDevices(); / onRefresh(); loadDetails(); each runs to its getConfig.
spawn(ts, slot, task, loads) ==
    LET first == [ts EXCEPT ![slot] =
                     IF Len(loads) = 0 THEN Free
                     ELSE Task(loads[1], task.handler, task.mounted, "")]
    IN  IF Len(loads) < 2 THEN first
        ELSE [first EXCEPT ![FirstFree(first)] = Task(loads[2], task.handler, task.mounted, "")]

\* The answer to the call of a mutation handler: the success toast, the
\* load functions, popToRoot; or the failure toast of the catch.
ReplyMutation ==
    /\ \E slot \in 1..MaxTasks :
          LET task == tasks[slot]
              handler == Handler(task.handler)
          IN  /\ task.pc = "awaiting"
              /\ handler.kind = "mutation"
              /\ \E answer \in Answers(task.reqs[1].op) :
                    LET spawned == spawn(tasks, slot, task, reloadsAfter(handler, answer))
                        pops == answer.ok /\ handler.pop /\ task.mounted
                    IN  /\ event' = Handled(IF answer.ok THEN "mutated" ELSE "failed",
                                            handler.name, task.reqs[1].op, answer, <<>>,
                                            IF answer.ok THEN Toast("success", "")
                                            ELSE Toast("failure",
                                                       failureMessage(handler, answer.error)))
                        /\ tasks' = IF pops THEN unmounted(spawned) ELSE spawned
                        /\ view' = IF pops THEN "root" ELSE view
                        /\ shown' = IF pops THEN NoShown
                                    ELSE IF answer.ok /\ task.mounted THEN afterMutation(shown)
                                    ELSE shown
    /\ UNCHANGED <<session, file, lastSaved>>
    /\ UNCHANGED besidesViews

\* getAuthStatus after its getAccount: authenticated either way, the network
\* name only when the call succeeded and the account has a network; the
\* catch shows nothing.
ReplyStatus ==
    /\ \E slot \in 1..MaxTasks :
          LET task == tasks[slot]
              handler == Handler(task.handler)
          IN  /\ task.pc = "awaiting"
              /\ handler.kind = "status"
              /\ \E answer \in Answers(task.reqs[1].op) :
                    /\ event' = Handled(IF answer.ok THEN "status" ELSE "failed",
                                        handler.name, task.reqs[1].op, answer, <<>>, NoToast)
                    /\ tasks' = [tasks EXCEPT ![slot] = Free]
                    /\ shown' = IF ~task.mounted THEN shown
                                ELSE [shown EXCEPT !.authStatus =
                                         IF answer.ok /\ answer.value # Undefined
                                         THEN "authenticated, network named"
                                         ELSE "authenticated"]
    /\ UNCHANGED <<view, session, file, lastSaved>>
    /\ UNCHANGED besidesViews

\* Login.handleRequestCode after api.login: the user_token is kept for the
\* verification; or the failure toast of the catch.
ReplyRequestCode ==
    /\ \E slot \in 1..MaxTasks :
          LET task == tasks[slot]
              handler == Handler(task.handler)
          IN  /\ task.pc = "awaiting"
              /\ handler.kind = "requestCode"
              /\ \E answer \in Answers(task.reqs[1].op) :
                    /\ event' = Handled(IF answer.ok THEN "code sent" ELSE "failed",
                                        handler.name, task.reqs[1].op, answer, <<>>,
                                        IF answer.ok THEN Toast("success", "Check your email or phone")
                                        ELSE Toast("failure",
                                                   failureMessage(handler, answer.error)))
                    /\ tasks' = [tasks EXCEPT ![slot] = Free]
                    /\ shown' = IF answer.ok /\ task.mounted
                                THEN [shown EXCEPT !.userToken = answer.value]
                                ELSE shown
    /\ UNCHANGED <<view, session, file, lastSaved>>
    /\ UNCHANGED besidesViews

\* Login.handleVerify after api.loginVerify: api.getAccount goes out; or the
\* failure toast of the catch.
ReplyVerify ==
    /\ \E slot \in 1..MaxTasks :
          LET task == tasks[slot]
              handler == Handler(task.handler)
          IN  /\ task.pc = "awaiting"
              /\ handler.kind = "verify"
              /\ Len(task.reqs) = 1
              /\ \E answer \in Answers(task.reqs[1].op) :
                    /\ event' = Handled(IF answer.ok THEN "issued" ELSE "failed",
                                        handler.name, task.reqs[1].op, answer,
                                        IF answer.ok THEN <<handler.calls[2]>> ELSE <<>>,
                                        IF answer.ok THEN NoToast
                                        ELSE Toast("failure",
                                                   failureMessage(handler, answer.error)))
                    /\ tasks' = [tasks EXCEPT ![slot] =
                                    IF answer.ok
                                    THEN [task EXCEPT !.reqs = Append(answered(task, 1, answer),
                                                                      Request(handler.calls[2]))]
                                    ELSE Free]
    /\ UNCHANGED <<view, shown, session, file, lastSaved>>
    /\ UNCHANGED besidesViews

\* Login.handleVerify after api.getAccount: saveConfig, the success toast,
\* popToRoot; the failure toast when the call or saveConfig rejects.
ReplyAccount ==
    /\ \E slot \in 1..MaxTasks :
          LET task == tasks[slot]
              handler == Handler(task.handler)
          IN  /\ task.pc = "awaiting"
              /\ handler.kind = "verify"
              /\ Len(task.reqs) = 2
              /\ \E answer \in Answers(task.reqs[2].op) :
                    LET config == LoginConfig(task.userToken, answer.value)
                    IN  \/ /\ answer.ok
                           /\ file' = saveConfig(config)
                           /\ lastSaved' = [saved |-> TRUE, config |-> config]
                           /\ session' = "loggedIn"
                           /\ event' = Handled("saved", handler.name, task.reqs[2].op, answer,
                                               <<>>, Toast("success", "Login successful"))
                           /\ tasks' = IF task.mounted
                                       THEN unmounted([tasks EXCEPT ![slot] = Free])
                                       ELSE [tasks EXCEPT ![slot] = Free]
                           /\ view' = IF task.mounted THEN "root" ELSE view
                           /\ shown' = IF task.mounted THEN NoShown ELSE shown
                        \/ /\ answer.ok
                           /\ file' \in Damaged(file, stringify(config))
                           /\ event' = Handled("not saved", handler.name, task.reqs[2].op, answer,
                                               <<>>, Toast("failure", failureMessage(handler, FileError)))
                           /\ tasks' = [tasks EXCEPT ![slot] = Free]
                           /\ UNCHANGED <<lastSaved, session, view, shown>>
                        \/ /\ ~answer.ok
                           /\ event' = Handled("failed", handler.name, task.reqs[2].op, answer,
                                               <<>>, Toast("failure",
                                                           failureMessage(handler, answer.error)))
                           /\ tasks' = [tasks EXCEPT ![slot] = Free]
                           /\ UNCHANGED <<file, lastSaved, session, view, shown>>
    /\ UNCHANGED besidesViews

NextViews ==
    \/ Open \/ Close \/ Do \/ Answer
    \/ Begin \/ Logout \/ BeginLogin
    \/ ReplyLoad \/ ReplyIgnored \/ ReplyMutation \/ ReplyStatus
    \/ ReplyRequestCode \/ ReplyVerify \/ ReplyAccount

SpecViews == InitViews /\ [][NextViews]_vars

----------------------------------------------------------------------------
(* Vocabulary of the properties of the views *)

LoadNames == {h.name : h \in {g \in Handlers : g.kind = "load"}}
MutationNames == {h.name : h \in {g \in Handlers : g.kind = "mutation"}}

\* The commands that show a resource of the network.
ResourceCommands ==
    {"devices", "profiles", "eeros", "guest", "reservations", "forwards", "reboot"}

\* The last step was a handler coming back from getConfig: it went past its
\* guard and issued its requests, or it stopped there.
AtGuard == event.did \in {"issued", "unauthenticated", "returned"}

\* What the view displays of the network.
Displayed(sh) == <<sh.collection, sh.details, sh.allDevices, sh.devices>>

----------------------------------------------------------------------------
(* C16 *)

\* C16: logout writes the config with token "" and network_id ""; from then
\* until a login completes, the config read has no token (isAuthenticated is
\* false), getAuthStatus gives "not authenticated" and issues no request, and
\* every handler of a resource view that reads the config stops at its guard
\* without a request.
C16_AfterLogout ==
    /\ event.did = "saved" /\ event.handler = "Status.handleLogout" =>
          /\ session = "loggedOut"
          /\ file.whole
          /\ parse(file.text) = [ok |-> TRUE, value |-> [token |-> "", network_id |-> ""]]
    /\ session = "loggedOut" =>
          /\ \A readable \in BOOLEAN : ~isAuthenticated(getConfig(file, readable).value)
          /\ event.handler = "Status.checkStatus" /\ event.did # "opened" =>
                /\ event.did = "unauthenticated"
                /\ event.issued = <<>>
                /\ view = "status" => shown.authStatus = "not authenticated"
          /\ AtGuard /\ Handler(event.handler).command \in ResourceCommands =>
                /\ event.did = "unauthenticated"
                /\ event.issued = <<>>

\* After a logout the devices view was opened and its load stopped at the
\* guard.
C16_Witness ==
    /\ session = "loggedOut"
    /\ view = "devices"
    /\ event.did = "unauthenticated"
    /\ event.handler = "Devices.loadDevices"
    /\ event.issued = <<>>

----------------------------------------------------------------------------
(* C17 *)

\* C17: while a view is on screen, what it displays of the network changes
\* only in the step in which a load function has got the answers to its
\* reads; no step of a mutation handler changes it.
C17_OnlyLoadsChangeDisplayed ==
    [][view' = view /\ Displayed(shown') # Displayed(shown) =>
          /\ event'.did = "loaded"
          /\ event'.handler \in LoadNames
          /\ event'.op \in ReadOperations]_vars

\* A pause succeeded and the devices displayed are the ones loaded before.
C17_Witness ==
    /\ event.did = "mutated"
    /\ event.handler = "Devices.handlePause"
    /\ view = "devices"
    /\ shown.collection = "D1"

----------------------------------------------------------------------------
(* C18 *)

\* The load functions a step has called: the slots whose task was started
\* by a mutation handler in this step.
Called(before, after) ==
    {slot \in 1..MaxTasks : /\ after[slot].after \in MutationNames
                            /\ after[slot].after # before[slot].after}

\* Every load function called in the step belongs to the handler of the
\* step, stands at its getConfig and has issued no request; they are called
\* in no step but the one of a successful mutation.
CalledAfterResponse(before, after, e) ==
    \A slot \in Called(before, after) :
        /\ e.did = "mutated"
        /\ after[slot].after = e.handler
        /\ after[slot].handler \in LoadNames
        /\ Handler(after[slot].handler).command = Handler(e.handler).command
        /\ after[slot].pc = "config"
        /\ after[slot].reqs = <<>>

\* C18: a successful mutation calls the load function(s) of its view in the
\* step that handles its response, except the network reboot, which calls
\* none and goes back to the root; a load function is called by a mutation
\* handler in no other step, so after the response and never after a failed
\* mutation; it has then issued no request yet.
C18_ReloadAfterSuccess ==
    [][/\ CalledAfterResponse(tasks, tasks', event')
       /\ event'.did = "mutated" /\ event'.handler # "Reboot.handleReboot" =>
             Called(tasks, tasks') # {}
       /\ event'.did = "mutated" /\ event'.handler = "Reboot.handleReboot" =>
             /\ Called(tasks, tasks') = {}
             /\ view = "reboot" => view' = "root"
       /\ event'.did = "failed" /\ event'.handler \in MutationNames =>
             Called(tasks, tasks') = {}]_vars

\* C18 as stated: every successful mutation, the network reboot included, is
\* followed by a reload.
C18_AsStated ==
    [][/\ CalledAfterResponse(tasks, tasks', event')
       /\ event'.did = "mutated" => Called(tasks, tasks') # {}
       /\ event'.did = "failed" /\ event'.handler \in MutationNames =>
             Called(tasks, tasks') = {}]_vars

\* The pause of a profile succeeded in its detail view and both load
\* functions, of the list and of the detail, have been called.
C18_Witness ==
    /\ event.did = "mutated"
    /\ event.handler = "ProfileDetail.handlePause"
    /\ {tasks[slot].handler : slot \in {i \in 1..MaxTasks : tasks[i].after = event.handler}}
          = {"Profiles.loadProfiles", "ProfileDetail.loadDetails"}

----------------------------------------------------------------------------
(* C19 *)

\* The task that ended in the step.
Ended(before, after) ==
    {slot \in 1..MaxTasks : before[slot] # Free /\ after[slot] = Free}

\* What the detail view shows of a profile.
Detail(sh) == <<sh.details, sh.allDevices, sh.devices>>

\* The answer of the read at a place of Promise.all's array: the one that
\* arrived before, or the one of this step.
Arrived(task, place, e) ==
    IF task.reqs[place].state = "ok" THEN task.reqs[place].value ELSE e.value

\* C19: loadDetails issues getProfileDetails and getDevices in one step; the
\* details, the device list and the profile's devices change only in the
\* step in which the second of the two answers has arrived and both
\* resolved, and then details is the answer of getProfileDetails and
\* allDevices the answer of getDevices whichever came last; a step in which
\* a read fails, or only one has answered, changes none of the three.
C19_BothReads ==
    [][/\ event'.did = "issued" /\ event'.handler = "ProfileDetail.loadDetails" =>
             /\ event'.issued = <<"getProfileDetails", "getDevices">>
             /\ \E slot \in 1..MaxTasks :
                   /\ tasks'[slot].handler = "ProfileDetail.loadDetails"
                   /\ tasks[slot].reqs = <<>>
                   /\ Len(tasks'[slot].reqs) = 2
                   /\ \A place \in 1..2 : tasks'[slot].reqs[place].state = "out"
       /\ view' = view /\ Detail(shown') # Detail(shown) =>
             /\ event'.did = "loaded"
             /\ event'.handler = "ProfileDetail.loadDetails"
       /\ event'.did = "loaded" /\ event'.handler = "ProfileDetail.loadDetails" =>
             \E slot \in Ended(tasks, tasks') :
                LET task == tasks[slot]
                IN  /\ task.handler = "ProfileDetail.loadDetails"
                    /\ Cardinality({place \in 1..2 : task.reqs[place].state = "ok"}) = 1
                    /\ task.mounted =>
                          /\ shown'.details = Arrived(task, 1, event')
                          /\ shown'.allDevices = Arrived(task, 2, event')
                          /\ shown'.devices = [of |-> Arrived(task, 1, event'),
                                               from |-> Arrived(task, 2, event')]
       /\ event'.handler = "ProfileDetail.loadDetails"
            /\ event'.did \in {"failed", "failed late", "waiting", "ignored"} =>
             Detail(shown') = Detail(shown)]_vars

\* The device list arrived first and the details last: the view shows each
\* from its own read.
C19_Witness ==
    /\ event.did = "loaded"
    /\ event.handler = "ProfileDetail.loadDetails"
    /\ event.op = "getProfileDetails"
    /\ event.value = "D1"
    /\ shown.details = "D1"
    /\ shown.allDevices = "D2"

----------------------------------------------------------------------------
(* C20 *)

\* The text the login form shows for an error of the API whose message,
\* in lower case, has one of these words.
ContainsAny(text, words) == \E w \in words : Occurrences(toLowerCase(text), w) # {}

LoginText(error) ==
    IF error.name = "EeroAPIError" /\ ContainsAny(error.message, {"blocked"})
    THEN BlockedText
    ELSE IF error.name = "EeroAPIError" /\ ContainsAny(error.message, {"invalid", "incorrect"})
    THEN InvalidText
    ELSE IF error.name = "EeroAPIError" /\ ContainsAny(error.message, {"expired"})
    THEN ExpiredText
    ELSE error.message

\* C20: a failed call of a load function or of a mutation handler shows a
\* failure toast with the error's message; a failed login step shows a
\* failure toast with the text of the login form for the error; the failed
\* getAccount of the status check shows no toast and the status reads
\* "authenticated"; a read that fails after Promise.all has rejected shows
\* nothing; no failed call shows a success toast.
C20_FailureToast ==
    /\ event.did = "failed" /\ event.handler \in LoadNames \cup MutationNames =>
          event.toast = Toast("failure", event.error.message)
    /\ event.did = "failed" /\ Handler(event.handler).command = "login" =>
          event.toast = Toast("failure", LoginText(event.error))
    /\ event.did = "failed" /\ event.handler = "Status.checkStatus" =>
          /\ event.toast = NoToast
          /\ view = "status" => shown.authStatus = "authenticated"
    /\ event.did = "failed late" =>
          /\ event.handler = "ProfileDetail.loadDetails"
          /\ event.toast = NoToast
    /\ event.did \in {"failed", "failed late"} =>
          /\ event.error \in ApiFailures
          /\ event.toast.style # "success"

\* C20 as stated: every failed call shows a failure toast with the error's
\* message.
C20_AsStated ==
    event.did \in {"failed", "failed late"} =>
        event.toast = Toast("failure", event.error.message)

\* The getAccount of the status check failed: no toast, and the view reads
\* "authenticated".
C20_Witness ==
    /\ event.did = "failed"
    /\ event.handler = "Status.checkStatus"
    /\ event.error = EeroAPIError("API error (status 500)", 500)
    /\ event.toast = NoToast
    /\ view = "status"
    /\ shown.authStatus = "authenticated"

----------------------------------------------------------------------------
(* C29 *)

\* The characters of a token the masked text gives away: all of the text but
\* the ellipsis.
Disclosed(text) == Len(text) - Len(Ellipsis)

\* C29 as stated: for every non-empty token the masked text shows fewer
\* characters than the token has.
C29_AsStated ==
    fn = "maskedToken" /\ Present(url) => Disclosed(ret) < Len(url)

\* A token of two characters is shown whole, twice.
C29_Witness ==
    /\ fn = "maskedToken"
    /\ url = "n1"
    /\ ret = "n1" \o Ellipsis \o "n1"

----------------------------------------------------------------------------
(* C30 *)

\* The last step handed the result of an extractor back to it.
Reapplied == fn' = fn /\ fn \in ExtractorNames /\ url' = ret

\* C30 (as amended): the extractors that cut after the last marker
\* (extractDeviceID, extractProfileID, extractReservationID,
\* extractPortForwardID) return their own result unchanged; the extractors
\* that strip a prefix (extractNetworkID, extractEeroID) return their own
\* result unchanged unless it begins with the prefix again, and then strip
\* it once more.
C30_SecondExtraction ==
    [][Reapplied =>
          IF fn \in DOMAIN PrefixOf /\ HasPrefix(ret, PrefixOf[fn])
          THEN ret' = Rest(ret, Len(PrefixOf[fn])) /\ ret' # ret
          ELSE ret' = ret]_vars

\* C30 as stated: every extractor returns its own result unchanged.
C30_AsStated == [][Reapplied => ret' = ret]_vars

\* The id of a device went through extractDeviceID a second time.
C30_Witness ==
    /\ fn = "extractDeviceID"
    /\ url = "d1"
    /\ ret = "d1"

----------------------------------------------------------------------------
(* C27 *)

\* The operations that stand behind a confirmation dialog.
ConfirmedOperations ==
    {"rebootNetwork", "rebootEero", "deleteReservation", "deletePortForward"}

\* The handlers that call them.
Destructive ==
    {h.name : h \in {g \in Handlers : \E i \in 1..Len(g.calls) :
                                          g.calls[i] \in ConfirmedOperations}}

\* C27: a handler that calls rebootNetwork, rebootEero, deleteReservation or
\* deletePortForward gets past its dialog only in the step in which the user
\* confirms it, and issues its request only from there; when the user
\* declines, the handler ends: no request, no toast, and the view, what it
\* shows and the stored config stay as they were.
C27_ConfirmFirst ==
    [][/\ \A slot \in 1..MaxTasks :
             /\ tasks'[slot].handler \in Destructive
             /\ tasks'[slot].pc # "confirm"
             /\ tasks[slot].handler # tasks'[slot].handler \/ tasks[slot].pc = "confirm"
             => /\ event'.did = "confirmed"
                /\ event'.handler = tasks'[slot].handler
                /\ tasks[slot].handler = tasks'[slot].handler
                /\ tasks[slot].pc = "confirm"
                /\ tasks'[slot].pc = "config"
                /\ tasks'[slot].reqs = <<>>
       /\ \A i \in 1..Len(event'.issued) :
             event'.issued[i] \in ConfirmedOperations =>
                /\ event'.did = "issued"
                /\ event'.handler \in Destructive
                /\ \E slot \in 1..MaxTasks :
                      /\ tasks[slot].handler = event'.handler
                      /\ tasks[slot].pc = "config"
                      /\ tasks'[slot].pc = "awaiting"
       /\ event'.did = "declined" =>
             /\ event'.issued = <<>>
             /\ event'.toast = NoToast
             /\ <<view', shown', file', session'>> = <<view, shown, file, session>>
             /\ \E slot \in Ended(tasks, tasks') :
                   /\ tasks[slot].pc = "confirm"
                   /\ tasks[slot].reqs = <<>>
                   /\ \A other \in 1..MaxTasks \ {slot} : tasks'[other] = tasks[other]]_vars

\* The user confirmed the deletion of a reservation and the request went out.
C27_Witness ==
    /\ event.did = "issued"
    /\ event.handler = "Reservations.handleDelete"
    /\ event.issued = <<"deleteReservation">>

----------------------------------------------------------------------------
(* C28 *)

\* The config the file holds.
Stored == getConfig(file, TRUE).value

\* The operations whose path has no network id.
WithoutNetwork == {"login", "loginVerify", "getAccount", "rebootEero"}

\* C28: outside the login form, a handler issues its requests only while the
\* stored config has a non-empty token, and a request whose path has a
\* network id only while it has a non-empty network_id too; after a logout
\* only the login form issues requests.
C28_RequestsNeedConfig ==
    /\ event.did = "issued" /\ Handler(event.handler).command # "login" =>
          /\ Truthy(Stored.token)
          /\ \A i \in 1..Len(event.issued) :
                event.issued[i] \notin WithoutNetwork => Truthy(Stored.network_id)
    /\ event.did = "issued" /\ session = "loggedOut" =>
          Handler(event.handler).command = "login"

\* The reboot of a node goes out with a token stored and no network id.
C28_Witness ==
    /\ event.did = "issued"
    /\ event.handler = "Eeros.handleReboot"
    /\ Truthy(Stored.token)
    /\ ~Truthy(Stored.network_id)

----------------------------------------------------------------------------
(* C22 *)

LoginHandlers == {"Login.handleRequestCode", "Login.handleVerify"}

\* C22: the login form writes the config only in the step in which
\* getAccount has answered, after loginVerify succeeded; a failed login,
\* loginVerify or getAccount leaves the stored config as it was. The token
\* written is the one the verification was started with, which is the
\* user_token the form holds, and the form holds what login returned.
C22_PersistAfterBoth ==
    [][/\ event'.handler \in LoginHandlers /\ <<file', lastSaved'>> # <<file, lastSaved>> =>
             /\ event'.did \in {"saved", "not saved"}
             /\ event'.handler = "Login.handleVerify"
             /\ event'.op = "getAccount"
             /\ event'.error = NoError
             /\ \E slot \in Ended(tasks, tasks') :
                   /\ Len(tasks[slot].reqs) = 2
                   /\ tasks[slot].reqs[1].op = "loginVerify"
                   /\ tasks[slot].reqs[1].state = "ok"
       /\ event'.handler \in LoginHandlers /\ event'.did = "failed" =>
             <<file', lastSaved'>> = <<file, lastSaved>>
       /\ event'.handler \in LoginHandlers /\ event'.did = "saved" =>
             \E slot \in Ended(tasks, tasks') :
                /\ file'.whole
                /\ parse(file'.text).ok
                /\ parse(file'.text).value.token = tasks[slot].userToken
       /\ event'.did = "started" /\ event'.handler = "Login.handleVerify" =>
             \E slot \in 1..MaxTasks :
                /\ tasks[slot] = Free
                /\ tasks'[slot].handler = "Login.handleVerify"
                /\ tasks'[slot].userToken = shown.userToken
       /\ view' = view /\ shown'.userToken # shown.userToken =>
             /\ event'.did = "code sent"
             /\ event'.op = "login"
             /\ shown'.userToken = event'.value]_vars

\* A login replaced the token stored before with the one login returned.
C22_Witness ==
    /\ event.did = "saved"
    /\ event.handler = "Login.handleVerify"
    /\ lastSaved.config.token # "abc123"
    /\ Stored.token = lastSaved.config.token

----------------------------------------------------------------------------
(* C23 *)

\* C23 as stated: when the login form reports success, the stored config has
\* a non-empty token and a non-empty network_id.
C23_AsStated ==
    event.did = "saved" /\ event.handler = "Login.handleVerify" =>
        Truthy(Stored.token) /\ Truthy(Stored.network_id)

\* After a login that reported success the devices view reports that the
\* user is not authenticated: the config has the token and no network_id.
C23_Witness ==
    /\ session = "loggedIn"
    /\ Truthy(Stored.token)
    /\ ~Truthy(Stored.network_id)
    /\ view = "devices"
    /\ event.did = "unauthenticated"
    /\ event.handler = "Devices.loadDevices"

(***************************************************************************)
(* The profile detail view: the devices of one profile.  loadDetails       *)
(* fetches the profile's devices into the state `details`; handleAddDevice *)
(* and handleRemoveDevice compute the whole new device list from `details` *)
(* and send it with setProfileDevices, then call loadDetails again.        *)
(***************************************************************************)

\* The user actions one behaviour of the profile detail makes.
MaxClicks == 3

\* The elements of a list.
Elements(seq) == {seq[i] : i \in 1..Len(seq)}

\* details.devices.filter((d) => d.url !== device.url).map((d) => d.url)
RECURSIVE removedFrom(_, _)
removedFrom(urls, deviceUrl) ==
    IF urls = <<>> THEN <<>>
    ELSE IF Head(urls) = deviceUrl THEN removedFrom(Tail(urls), deviceUrl)
    ELSE <<Head(urls)>> \o removedFrom(Tail(urls), deviceUrl)

\* [...details.devices.map((d) => d.url), device.url]
addedTo(urls, deviceUrl) == Append(urls, deviceUrl)

\* The list a handler sends, computed from the details the view holds.
deviceUrls(handler, details, deviceUrl) ==
    IF handler = "handleAddDevice" THEN addedTo(details.devices, deviceUrl)
    ELSE removedFrom(details.devices, deviceUrl)

\* What a successful change does to its device.
effectOf(handler) == IF handler = "handleAddDevice" THEN "added" ELSE "removed"

\* An invocation of a handler of the profile detail: "config" while it awaits
\* getConfig, "awaiting" while its request is outstanding with the list `sent`.
Flight(handler, deviceUrl) ==
    [handler |-> handler, device |-> deviceUrl, pc |-> "config", sent |-> <<>>]

Step(did, handler, deviceUrl, urls) ==
    [did |-> did, handler |-> handler, device |-> deviceUrl, deviceUrls |-> urls]

\* A list without its i-th element.
without(seq, i) == SubSeq(seq, 1, i - 1) \o SubSeq(seq, i + 1, Len(seq))

\* The profile's devices on the server when the view opens.
InitialMembers == {<<>>, <<"/devices/d1">>}

\* The view is mounted with a logged-in configuration: useEffect calls
\* loadDetails.
InitProfile ==
    /\ \E members \in InitialMembers :
          profile = [NoProfile EXCEPT !.server = members,
                                      !.flights = <<Flight("loadDetails", "")>>]
    /\ LET config == LoginConfig("abc123", "/2.2/networks/n1")
       IN /\ file = saveConfig(config)
          /\ lastSaved = [saved |-> TRUE, config |-> config]
    /\ got = NotRead
    /\ ClientIdle
    /\ HelpersIdle
    /\ ViewsIdle
    /\ ListIdle

\* The user picks "Remove from Profile" on a device the view lists as a
\* member, or "Add to Profile" on one it lists as available.
ClickDevice ==
    /\ profile.details.loaded
    /\ profile.clicks < MaxClicks
    /\ Len(profile.flights) < MaxTasks
    /\ \E deviceUrl \in ProfileDevices :
          LET handler == IF deviceUrl \in Elements(profile.details.devices)
                         THEN "handleRemoveDevice" ELSE "handleAddDevice"
          IN profile' = [profile EXCEPT
                 !.flights = Append(@, Flight(handler, deviceUrl)),
                 !.clicks = @ + 1,
                 !.last = Step("started", handler, deviceUrl, <<>>)]
    /\ UNCHANGED besidesProfile

\* getConfig resolves for a handler: without token or network it returns,
\* otherwise a change computes its list from the details of this moment and
\* issues setProfileDevices, and loadDetails issues its two reads.
BeginProfile ==
    /\ \E i \in 1..Len(profile.flights), readable \in BOOLEAN :
          LET flight == profile.flights[i]
              config == getConfig(file, readable).value
              urls == IF flight.handler = "loadDetails" THEN <<>>
                      ELSE deviceUrls(flight.handler, profile.details, flight.device)
          IN /\ flight.pc = "config"
             /\ IF Truthy(config.token) /\ Truthy(config.network_id)
                THEN profile' = [profile EXCEPT
                         !.flights[i] = [flight EXCEPT !.pc = "awaiting", !.sent = urls],
                         !.last = Step("issued", flight.handler, flight.device, urls)]
                ELSE profile' = [profile EXCEPT
                         !.flights = without(@, i),
                         !.last = Step("unauthenticated", flight.handler,
                                       flight.device, <<>>)]
    /\ UNCHANGED besidesProfile

\* The request of a handler completes.  A successful change has replaced the
\* profile's devices on the server by the list that was sent, and the handler
\* goes on into loadDetails; a successful load stores the server's list in
\* `details`; a failure ends the handler with a toast.
ReplyProfile ==
    /\ \E i \in 1..Len(profile.flights), succeeds \in BOOLEAN :
          LET flight == profile.flights[i]
          IN /\ flight.pc = "awaiting"
             /\ IF ~succeeds
                THEN profile' = [profile EXCEPT
                         !.flights = without(@, i),
                         !.last = Step("failed", flight.handler, flight.device, <<>>)]
                ELSE IF flight.handler = "loadDetails"
                THEN profile' = [profile EXCEPT
                         !.details = [loaded |-> TRUE, devices |-> profile.server],
                         !.flights = without(@, i),
                         !.last = Step("loaded", flight.handler, "", profile.server)]
                ELSE profile' = [profile EXCEPT
                         !.server = flight.sent,
                         !.effects[flight.device] = effectOf(flight.handler),
                         !.flights[i] = Flight("loadDetails", ""),
                         !.last = Step("changed", flight.handler, flight.device,
                                       flight.sent)]
    /\ UNCHANGED besidesProfile

NextProfile == ClickDevice \/ BeginProfile \/ ReplyProfile

SpecProfile == InitProfile /\ [][NextProfile]_vars

\* C24: in the profile detail, the device list a setProfileDevices call sends
\* contains the effect of every earlier successful change: a device whose
\* latest successful change added it is in the list, one whose latest
\* successful change removed it is not (the device the call itself changes
\* aside).
C24_AsStated ==
    profile.last.did = "issued" /\ profile.last.handler # "loadDetails" =>
        \A deviceUrl \in ProfileDevices \ {profile.last.device} :
            /\ profile.effects[deviceUrl] = "added" =>
                  deviceUrl \in Elements(profile.last.deviceUrls)
            /\ profile.effects[deviceUrl] = "removed" =>
                  deviceUrl \notin Elements(profile.last.deviceUrls)

\* d1 was added with success, and before the reload has answered the add of d2
\* sends a list without d1.
C24_Witness ==
    /\ profile.effects["/devices/d1"] = "added"
    /\ profile.last = Step("issued", "handleAddDevice", "/devices/d2", <<"/devices/d2">>)
    /\ \E i \in 1..Len(profile.flights) : profile.flights[i].handler = "loadDetails"

(***************************************************************************)
(* The devices list view and its loading flag.  loadDevices sets isLoading *)
(* and clears the error when it is called, and clears isLoading when it    *)
(* ends; it is called on mount, by the Refresh action and by a handler     *)
(* after its mutation succeeded.  Each call is numbered in call order, and *)
(* `answers` keeps what each call ended with.                              *)
(***************************************************************************)

\* The calls of loadDevices one behaviour of the list makes.
MaxLoads == 3

NotAuthenticatedText == "Not authenticated. Please login first."

\* An invocation of a handler of the list: loadDevices with its number in
\* call order, or handlePause (nth 0).
ListFlight(handler, nth) == [handler |-> handler, nth |-> nth, pc |-> "config"]

ListStep(did, handler, nth, toast) ==
    [did |-> did, handler |-> handler, nth |-> nth, toast |-> toast]

\* loadDevices() is called: setIsLoading(true), setError(undefined), then it
\* awaits getConfig.
called(l) ==
    [l EXCEPT !.isLoading = TRUE,
              !.error = Undefined,
              !.flights = Append(@, ListFlight("loadDevices", l.calls + 1)),
              !.calls = @ + 1,
              !.answers = Append(@, "pending")]

\* The finally block of loadDevices.
finallyLeaving(l) == l

finally(l) == [l EXCEPT !.isLoading = FALSE]

\* The guard of loadDevices fails: the error is set, the flag cleared, return.
notAuthenticated(l, i) ==
    finally([l EXCEPT !.error = NotAuthenticatedText,
                      !.isLoading = FALSE,
                      !.answers[l.flights[i].nth] = "unauthenticated",
                      !.flights = without(@, i),
                      !.last = ListStep("unauthenticated", "loadDevices",
                                        l.flights[i].nth, NoToast)])

\* getDevices resolved: setDevices(devicesList).
loaded(l, i, devicesList) ==
    finally([l EXCEPT !.devices = devicesList,
                      !.answers[l.flights[i].nth] = devicesList,
                      !.flights = without(@, i),
                      !.last = ListStep("loaded", "loadDevices",
                                        l.flights[i].nth, NoToast)])

\* getDevices rejected: setError(error.message || "Failed to load devices")
\* and the failure toast.
loadFailed(l, i, error) ==
    finally([l EXCEPT !.error = IF Truthy(error.message) THEN error.message
                                ELSE "Failed to load devices",
                      !.answers[l.flights[i].nth] = "failed",
                      !.flights = without(@, i),
                      !.last = ListStep("failed", "loadDevices", l.flights[i].nth,
                                        Toast("failure", error.message))])

\* The list shows its items, whose action panel holds the actions: no error
\* is set and devices were loaded.
actionable(l) == l.error = Undefined /\ l.devices # NoData

\* The calls of loadDevices still to come from the handlers in flight.
reloadsToCome(l) ==
    Cardinality({i \in 1..Len(l.flights) : l.flights[i].handler = "handlePause"})

\* The view is mounted: useEffect calls loadDevices.
InitList ==
    /\ listView = called(NoList)
    /\ \/ file = NoFile /\ lastSaved = NoSave
       \/ LET config == LoginConfig("abc123", "/2.2/networks/n1")
          IN /\ file = saveConfig(config)
             /\ lastSaved = [saved |-> TRUE, config |-> config]
    /\ got = NotRead
    /\ ClientIdle
    /\ HelpersIdle
    /\ ViewsIdle
    /\ ProfileIdle

\* The Refresh action: onAction={loadDevices}.
Refresh ==
    /\ actionable(listView)
    /\ Len(listView.flights) < MaxTasks
    /\ listView.calls + reloadsToCome(listView) < MaxLoads
    /\ listView' = [called(listView) EXCEPT
           !.last = ListStep("called", "loadDevices", listView.calls + 1, NoToast)]
    /\ UNCHANGED besidesList

\* The Pause or Unpause action of an item: handlePause starts.
ClickPause ==
    /\ actionable(listView)
    /\ Len(listView.flights) < MaxTasks
    /\ listView.calls + reloadsToCome(listView) < MaxLoads
    /\ listView' = [listView EXCEPT
           !.flights = Append(@, ListFlight("handlePause", 0)),
           !.last = ListStep("started", "handlePause", 0, NoToast)]
    /\ UNCHANGED besidesList

\* getConfig resolves for a handler: with token and network its request is
\* issued, without them loadDevices reports and handlePause returns.
BeginList ==
    /\ \E i \in 1..Len(listView.flights), readable \in BOOLEAN :
          LET flight == listView.flights[i]
              config == getConfig(file, readable).value
          IN /\ flight.pc = "config"
             /\ IF Truthy(config.token) /\ Truthy(config.network_id)
                THEN listView' = [listView EXCEPT
                         !.flights[i].pc = "awaiting",
                         !.last = ListStep("issued", flight.handler, flight.nth, NoToast)]
                ELSE IF flight.handler = "loadDevices"
                THEN listView' = notAuthenticated(listView, i)
                ELSE listView' = [listView EXCEPT
                         !.flights = without(@, i),
                         !.last = ListStep("unauthenticated", flight.handler, 0, NoToast)]
    /\ UNCHANGED besidesList

\* The request of a handler completes: a load stores the devices or the
\* error, a successful pauseDevice shows its toast and calls loadDevices.
ReplyList ==
    /\ \E i \in 1..Len(listView.flights) :
          LET flight == listView.flights[i]
          IN /\ flight.pc = "awaiting"
             /\ IF flight.handler = "loadDevices"
                THEN \E answer \in Answers("getDevices") :
                        listView' = IF answer.ok
                                    THEN loaded(listView, i, answer.value)
                                    ELSE loadFailed(listView, i, answer.error)
                ELSE \E answer \in Answers("pauseDevice") :
                        listView' =
                            IF answer.ok
                            THEN [called([listView EXCEPT !.flights = without(@, i)])
                                  EXCEPT !.last = ListStep("mutated", "handlePause", 0,
                                                           Toast("success", ""))]
                            ELSE [listView EXCEPT
                                     !.flights = without(@, i),
                                     !.last = ListStep("failed", "handlePause", 0,
                                                  Toast("failure", answer.error.message))]
    /\ UNCHANGED besidesList

NextList == Refresh \/ ClickPause \/ BeginList \/ ReplyList

SpecList == InitList /\ [][NextList]_vars

\* A load of the view whose request is outstanding.
LoadOutstanding ==
    \E i \in 1..Len(listView.flights) :
        listView.flights[i].handler = "loadDevices" /\ listView.flights[i].pc = "awaiting"

\* C25: once every load of the list has completed, the displayed collection
\* is the response of the load that was started last.
C25_AsStated ==
    /\ listView.flights = <<>>
    /\ listView.calls > 0
    /\ listView.answers[listView.calls] \in Payloads
    => listView.devices = listView.answers[listView.calls]

\* The second load answered D2, then the first answered D1 and is displayed.
C25_Witness ==
    /\ listView.flights = <<>>
    /\ listView.calls = 3
    /\ listView.answers = <<"D1", "D1", "D2">>
    /\ listView.last = ListStep("loaded", "loadDevices", 2, NoToast)
    /\ listView.devices = "D1"

\* C26: the loading flag is true in every state in which a load request of
\* the list is outstanding.
C26_AsStated == LoadOutstanding => listView.isLoading

\* Of two overlapping loads the first has completed and cleared the flag,
\* the second is still outstanding.
C26_Witness ==
    /\ listView.flights = <<[handler |-> "loadDevices", nth |-> 3, pc |-> "awaiting"]>>
    /\ listView.last.did = "loaded"
    /\ listView.last.nth = 2
    /\ ~listView.isLoading

(***************************************************************************)
(* A load and the client it calls.  The operations of the client are       *)
(* called directly while the devices list is closed; then the list is      *)
(* mounted and loadDevices constructs the client with the stored token,    *)
(* awaits getDevices and takes what the operation settled with.  One load  *)
(* runs at a time.                                                         *)
(***************************************************************************)

InitLoad ==
    /\ \E t \in Tokens \cup {Undefined} : token = constructor(t)
    /\ pc = "idle"
    /\ call = NoCall
    /\ sent = <<>>
    /\ resp = NoResponse
    /\ outcome = Pending
    /\ \/ file = NoFile /\ lastSaved = NoSave
       \/ LET config == LoginConfig("abc123", "/2.2/networks/n1")
          IN /\ file = saveConfig(config)
             /\ lastSaved = [saved |-> TRUE, config |-> config]
    /\ got = NotRead
    /\ HelpersIdle
    /\ ViewsIdle
    /\ ProfileIdle
    /\ ListIdle

\* An operation of the client called, answered or resumed while the list is
\* closed.
Direct == ListIdle /\ Next

\* The devices list is opened: useEffect calls loadDevices.
MountList ==
    /\ ListIdle
    /\ pc = "idle"
    /\ listView' = called(NoList)
    /\ UNCHANGED besidesList

\* The Refresh action, once the load before has ended.
RefreshLoad ==
    /\ listView.flights = <<>>
    /\ Refresh

\* getConfig resolves for loadDevices: without token or network it reports
\* and ends; otherwise new EeroAPI(config.token) and api.getDevices run up to
\* the await of fetch.
BeginLoad ==
    /\ \E i \in 1..Len(listView.flights), readable \in BOOLEAN :
          LET flight == listView.flights[i]
              config == getConfig(file, readable).value
          IN /\ flight.pc = "config"
             /\ pc = "idle"
             /\ IF Truthy(config.token) /\ Truthy(config.network_id)
                THEN /\ Issue("getDevices", [networkId |-> config.network_id],
                              getDevices(constructor(config.token), config.network_id))
                     /\ listView' = [listView EXCEPT
                            !.flights[i].pc = "awaiting",
                            !.last = ListStep("issued", "loadDevices", flight.nth, NoToast)]
                ELSE /\ listView' = notAuthenticated(listView, i)
                     /\ UNCHANGED clientVars
    /\ UNCHANGED <<helperVars, storeVars, viewVars, profileVars>>

\* The request of the load completes: fetch settles and getDevices with it.
RespondLoad ==
    /\ ~ListIdle
    /\ Respond

\* loadDevices resumes with what getDevices settled with: the devices are
\* stored or the error is, and the finally block runs.
SettleLoad ==
    /\ \E i \in 1..Len(listView.flights) :
          /\ listView.flights[i].pc = "awaiting"
          /\ Resumed
          /\ listView' = IF outcome.kind = "return"
                         THEN loaded(listView, i, outcome.value)
                         ELSE loadFailed(listView, i, outcome.error)
    /\ UNCHANGED <<helperVars, storeVars, viewVars, profileVars>>

NextLoad == Direct \/ MountList \/ RefreshLoad \/ BeginLoad \/ RespondLoad \/ SettleLoad

SpecLoad == InitLoad /\ [][NextLoad]_vars

\* A load has ended in this step, on one of its three paths.
LoadEnded ==
    /\ Len(listView'.flights) < Len(listView.flights)
    /\ listView'.last.did \in {"loaded", "failed", "unauthenticated"}

\* C21: an operation of the client that has issued its request stays
\* suspended, and the load that called it with it, exactly until fetch
\* settles: it leaves its await in the step in which the response or the
\* rejection arrives and in no other, then with a result or an error; and a
\* load that ends, with the devices, with a failure or not authenticated,
\* leaves the loading flag cleared, which a load whose request is outstanding
\* has set.
C21_CompletesWithRequest ==
    [][/\ pc = "awaiting" =>
             /\ outcome = Pending /\ resp = NoResponse /\ Len(sent) > 0
             /\ listView.flights # <<>> =>
                   LoadOutstanding /\ listView.isLoading
                   /\ listView.answers[listView.calls] = "pending"
       /\ LoadOutstanding => pc \in {"awaiting", "done"} /\ call.op = "getDevices"
       /\ (pc = "awaiting" /\ pc' # "awaiting") <=> (resp = NoResponse /\ resp' # NoResponse)
       /\ pc = "awaiting" /\ pc' # "awaiting" =>
             pc' = "done" /\ outcome'.kind \in {"return", "throw"}
       /\ pc = "awaiting" /\ pc' = "awaiting" => UNCHANGED <<outcome, listView>>
       /\ LoadEnded => ~listView'.isLoading
       /\ LoadEnded /\ listView'.last.did # "unauthenticated" => pc = "done" /\ pc' = "idle"
      ]_vars

\* A load whose request failed has ended and cleared the flag.
C21_Witness ==
    /\ listView.last.did = "failed"
    /\ listView.answers = <<"D1", "failed">>
    /\ ~listView.isLoading
    /\ pc = "idle"

====
